---------------------------- MODULE Spec2Model ----------------------------
(*
  Trajectory Insight API: the analysis pipeline of backend/app
  (main.py, parsing.py, models.py, trajectory.py, conflicts.py,
  hotspots.py, resolver.py, scoring.py).

  Fixed-point conventions (the source computes in IEEE doubles):
    latitude, longitude   integer micro-degrees   (1 degree  = 1000000)
    distances             integer 1e-5 nm         (1 nm      = 100000)
    published 4-decimal values (round(x, 4))      integer 1e-4 units
    altitude ft, speed kt, timestamps s           integers as in the source
  Strings that the source searches by substring (aircraft descriptors) are
  tuples of one-character strings.
*)
EXTENDS Integers, Sequences, FiniteSets, TLC

VARIABLES
    pc,              \* position of the request / call being served
    payload,         \* analyze: the request body, a list of raw items
    flights,         \* _parse_flights: the parsed FlightPlans, in order
    issues,          \* the issues list returned to the caller
    trajectories,    \* dict ACID -> list of TrajectoryPoint (insertion order)
    conflicts_list,  \* result of detect_conflicts
    hotspots_list,   \* result of detect_hotspots
    proposals,       \* result of propose_resolutions (insertion-ordered dict)
    flight_map,      \* dict ACID -> FlightPlan given to propose_resolutions
    config,          \* HotspotConfig and the detector's time_bin_sec / bucket_deg
    call,            \* arguments of a direct call of build_trajectory
    ret              \* what that call returned or raised

vars == <<pc, payload, flights, issues, trajectories, conflicts_list,
          hotspots_list, proposals, flight_map, config, call, ret>>

-----------------------------------------------------------------------------
(* Arithmetic helpers *)

Min(a, b) == IF a <= b THEN a ELSE b

Max(a, b) == IF a >= b THEN a ELSE b

Abs(a) == IF a < 0 THEN -a ELSE a

\* math.ceil(n / d) for d > 0
CeilDiv(n, d) == -((-n) \div d)

\* round(n / d) to the nearest integer, ties to even (Python's round), d > 0
RoundDiv(n, d) ==
    LET q == n \div d
        r == n % d
    IN  IF 2 * r < d THEN q
        ELSE IF 2 * r > d THEN q + 1
        ELSE IF q % 2 = 0 THEN q ELSE q + 1

RECURSIVE SumSeq(_)
SumSeq(s) == IF s = <<>> THEN 0 ELSE s[1] + SumSeq(Tail(s))

RECURSIVE SeqsUpTo(_, _)
\* all sequences over S of length 0..n
SeqsUpTo(S, n) ==
    IF n = 0 THEN {<<>>}
    ELSE LET shorter == SeqsUpTo(S, n - 1)
         IN  shorter \cup {Append(s, x) : s \in {t \in shorter : Len(t) = n - 1}, x \in S}

\* all sequences over S of length exactly n
SeqsOfLen(S, n) == {s \in SeqsUpTo(S, n) : Len(s) = n}

Range(s) == {s[i] : i \in 1..Len(s)}

RECURSIVE SelectSeqBy(_, _)
\* the subsequence of s whose elements are in the set Keep (order kept)
SelectSeqBy(s, Keep) ==
    IF s = <<>> THEN <<>>
    ELSE IF s[1] \in Keep THEN <<s[1]>> \o SelectSeqBy(Tail(s), Keep)
    ELSE SelectSeqBy(Tail(s), Keep)

-----------------------------------------------------------------------------
(* Python dict: an insertion-ordered sequence of [key, value] entries *)

DictKeys(d) == [i \in 1..Len(d) |-> d[i].key]

DictHas(d, k) == \E i \in 1..Len(d) : d[i].key = k

DictGet(d, k) == d[CHOOSE i \in 1..Len(d) : d[i].key = k].value

\* d[k] = v : an existing key keeps its place, a new key goes last
DictSet(d, k, v) ==
    IF DictHas(d, k)
    THEN [i \in 1..Len(d) |-> IF d[i].key = k THEN [key |-> k, value |-> v] ELSE d[i]]
    ELSE Append(d, [key |-> k, value |-> v])

-----------------------------------------------------------------------------
(* trajectory.py: geodesy primitives *)

\* Arc length in 1e-5 nm of d micro-degrees of a great circle:
\* EARTH_RADIUS_NM * pi / 180 = 60.0405 nm per degree = 6.00405 per micro-degree.
ArcNm(d) == 6 * d + (d * 405) \div 100000

\* Haversine distance. On one meridian (dlon = 0) h = sin^2(dlat/2), and on
\* the equator (lat1 = lat2 = 0) h = sin^2(dlon/2): in both cases the result
\* is EARTH_RADIUS_NM times the angle between the points.  Only such pairs of
\* points occur in the inputs (any other pair is an evaluation error).
great_circle_nm(a, b) ==
    CASE a[2] = b[2] -> ArcNm(Abs(b[1] - a[1]))
      [] a[1] = 0 /\ b[1] = 0 -> ArcNm(Abs(b[2] - a[2]))

_segment_distances(points) ==
    [idx \in 1..(Len(points) - 1) |-> great_circle_nm(points[idx], points[idx + 1])]

\* a + (b - a) * t with t given in thousandths
_interpolate(a, b, t) ==
    <<a[1] + ((b[1] - a[1]) * t) \div 1000, a[2] + ((b[2] - a[2]) * t) \div 1000>>

-----------------------------------------------------------------------------
(* trajectory.py: build_trajectory *)

\* total_sec = int(math.ceil(total_nm / speed_kt * 3600.0))
TotalSec(total_nm, speed_kt) == CeilDiv(total_nm * 9, speed_kt * 250)

\* advance_nm = speed_kt * sample_sec / 3600.0
AdvanceNm(speed_kt, sample_sec) == (speed_kt * sample_sec * 250) \div 9

RECURSIVE SkipSegments(_, _, _, _)
\* the inner while: move to the next segment while the current one is used up
SkipSegments(distances, segment_index, segment_progress, segment_remaining) ==
    IF segment_index <= Len(distances) /\ segment_remaining <= 0
    THEN IF segment_index + 1 <= Len(distances)
         THEN SkipSegments(distances, segment_index + 1, 0, distances[segment_index + 1])
         ELSE SkipSegments(distances, segment_index + 1, segment_progress, segment_remaining)
    ELSE [segment_index |-> segment_index,
          segment_progress |-> segment_progress,
          segment_remaining |-> segment_remaining]

\* the position of one sample
SamplePosition(points, distances, seg) ==
    IF seg.segment_index > Len(distances)
    THEN points[Len(points)]
    ELSE LET segment_len == Max(1, distances[seg.segment_index])
             t == Min(1000, (seg.segment_progress * 1000) \div segment_len)
         IN  _interpolate(points[seg.segment_index], points[seg.segment_index + 1], t)

\* MakePoint with a fault: the sample is stamped after elapsed was advanced
MakePointLate(flight, pos, elapsed, sample_sec) ==
    [acid |-> flight.acid, lat |-> pos[1], lon |-> pos[2],
     altitude_ft |-> flight.altitude_ft,
     timestamp |-> flight.departure_time + elapsed + sample_sec,
     speed_kt |-> flight.speed_kt]

\* TrajectoryPoint(acid, lat, lon, altitude_ft, timestamp, speed_kt)
MakePoint(flight, pos, elapsed, sample_sec) ==
    [acid |-> flight.acid, lat |-> pos[1], lon |-> pos[2],
     altitude_ft |-> flight.altitude_ft,
     timestamp |-> flight.departure_time + elapsed,
     speed_kt |-> flight.speed_kt]

RECURSIVE SampleLoop(_, _, _, _, _, _, _)
\* the outer while: one sample every sample_sec while elapsed <= total_sec;
\* st = [elapsed, segment_index, segment_progress, segment_remaining]
SampleLoop(flight, points, distances, sample_sec, total_sec, st, trajectory) ==
    IF st.elapsed > total_sec THEN trajectory
    ELSE LET seg == SkipSegments(distances, st.segment_index, st.segment_progress,
                                 st.segment_remaining)
             pos == SamplePosition(points, distances, seg)
             advance_nm == AdvanceNm(Max(1, flight.speed_kt), sample_sec)
             next == [elapsed |-> st.elapsed + sample_sec,
                      segment_index |-> seg.segment_index,
                      segment_progress |-> seg.segment_progress + advance_nm,
                      segment_remaining |-> seg.segment_remaining - advance_nm]
         IN  SampleLoop(flight, points, distances, sample_sec, total_sec, next,
                        Append(trajectory, MakePoint(flight, pos, st.elapsed, sample_sec)))

\* Returns [ok, error, points]: ok = FALSE stands for the ValueError raised.
build_trajectory(flight, points, sample_sec) ==
    IF sample_sec <= 0
    THEN [ok |-> FALSE, error |-> "sample_sec must be positive", points |-> <<>>]
    ELSE LET distances == _segment_distances(points)
             total_nm == SumSeq(distances)
         IN  IF total_nm <= 0
             THEN [ok |-> FALSE, error |-> "route distance must be positive",
                   points |-> <<>>]
             ELSE LET speed_kt == Max(1, flight.speed_kt)
                      total_sec == TotalSec(total_nm, speed_kt)
                      st0 == [elapsed |-> 0, segment_index |-> 1,
                              segment_progress |-> 0,
                              segment_remaining |-> distances[1]]
                  IN  [ok |-> TRUE, error |-> "",
                       points |-> SampleLoop(flight, points, distances, sample_sec,
                                             total_sec, st0, <<>>)]

-----------------------------------------------------------------------------
(* models.py: aircraft constraint bands and the classifier *)

\* AircraftConstraints(min_speed_kt, max_speed_kt, min_altitude_ft, max_altitude_ft)
AIRCRAFT_CONSTRAINTS(category) ==
    CASE category = "jet" ->
           [min_speed_kt |-> 200, max_speed_kt |-> 550,
            min_altitude_ft |-> 10000, max_altitude_ft |-> 45000]
      [] category = "turboprop" ->
           [min_speed_kt |-> 150, max_speed_kt |-> 450,
            min_altitude_ft |-> 5000, max_altitude_ft |-> 41000]
      [] category = "prop" ->
           [min_speed_kt |-> 90, max_speed_kt |-> 220,
            min_altitude_ft |-> 1000, max_altitude_ft |-> 18000]
      [] category = "helicopter" ->
           [min_speed_kt |-> 60, max_speed_kt |-> 160,
            min_altitude_ft |-> 0, max_altitude_ft |-> 10000]

\* KNOWN_AIRCRAFT, in the dict's (insertion) order; names are tuples of characters
KNOWN_AIRCRAFT ==
    <<
       [name |-> <<"b","o","e","i","n","g"," ","7","8","7","-","9">>, category |-> "widebody"],
       [name |-> <<"b","o","e","i","n","g"," ","7","8","7">>, category |-> "widebody"],
       [name |-> <<"7","8","7","-","9">>, category |-> "widebody"],
       [name |-> <<"7","8","7">>, category |-> "widebody"],
       [name |-> <<"b","o","e","i","n","g"," ","7","7","7","-","3","0","0","e","r">>, category |-> "widebody"],
       [name |-> <<"b","o","e","i","n","g"," ","7","7","7">>, category |-> "widebody"],
       [name |-> <<"7","7","7","-","3","0","0","e","r">>, category |-> "widebody"],
       [name |-> <<"7","7","7">>, category |-> "widebody"],
       [name |-> <<"a","i","r","b","u","s"," ","a","3","3","0">>, category |-> "widebody"],
       [name |-> <<"a","3","3","0">>, category |-> "widebody"],
       [name |-> <<"b","o","e","i","n","g"," ","7","3","7","-","8","0","0">>, category |-> "narrowbody"],
       [name |-> <<"b","o","e","i","n","g"," ","7","3","7"," ","m","a","x"," ","8">>, category |-> "narrowbody"],
       [name |-> <<"b","o","e","i","n","g"," ","7","3","7"," ","m","a","x">>, category |-> "narrowbody"],
       [name |-> <<"b","o","e","i","n","g"," ","7","3","7">>, category |-> "narrowbody"],
       [name |-> <<"7","3","7","-","8","0","0">>, category |-> "narrowbody"],
       [name |-> <<"7","3","7"," ","m","a","x"," ","8">>, category |-> "narrowbody"],
       [name |-> <<"7","3","7"," ","m","a","x">>, category |-> "narrowbody"],
       [name |-> <<"7","3","7">>, category |-> "narrowbody"],
       [name |-> <<"a","i","r","b","u","s"," ","a","3","2","0">>, category |-> "narrowbody"],
       [name |-> <<"a","i","r","b","u","s"," ","a","3","2","1">>, category |-> "narrowbody"],
       [name |-> <<"a","i","r","b","u","s"," ","a","2","2","0","-","3","0","0">>, category |-> "narrowbody"],
       [name |-> <<"a","i","r","b","u","s"," ","a","2","2","0">>, category |-> "narrowbody"],
       [name |-> <<"a","3","2","0">>, category |-> "narrowbody"],
       [name |-> <<"a","3","2","1">>, category |-> "narrowbody"],
       [name |-> <<"a","2","2","0","-","3","0","0">>, category |-> "narrowbody"],
       [name |-> <<"a","2","2","0">>, category |-> "narrowbody"],
       [name |-> <<"d","a","s","h"," ","8","-","4","0","0">>, category |-> "regional"],
       [name |-> <<"d","a","s","h"," ","8">>, category |-> "regional"],
       [name |-> <<"d","a","s","h","-","8">>, category |-> "regional"],
       [name |-> <<"q","4","0","0">>, category |-> "regional"],
       [name |-> <<"e","m","b","r","a","e","r"," ","e","1","9","5","-","e","2">>, category |-> "regional"],
       [name |-> <<"e","m","b","r","a","e","r"," ","e","1","9","5">>, category |-> "regional"],
       [name |-> <<"e","1","9","5","-","e","2">>, category |-> "regional"],
       [name |-> <<"e","1","9","5">>, category |-> "regional"],
       [name |-> <<"e","m","b","r","a","e","r">>, category |-> "regional"],
       [name |-> <<"c","r","j">>, category |-> "regional"],
       [name |-> <<"b","o","m","b","a","r","d","i","e","r"," ","c","r","j">>, category |-> "regional"],
       [name |-> <<"b","o","e","i","n","g"," ","7","6","7","-","3","0","0","f">>, category |-> "cargo"],
       [name |-> <<"b","o","e","i","n","g"," ","7","6","7","f">>, category |-> "cargo"],
       [name |-> <<"7","6","7","-","3","0","0","f">>, category |-> "cargo"],
       [name |-> <<"7","6","7","f">>, category |-> "cargo"],
       [name |-> <<"b","o","e","i","n","g"," ","7","5","7","-","2","0","0","f">>, category |-> "cargo"],
       [name |-> <<"b","o","e","i","n","g"," ","7","5","7","f">>, category |-> "cargo"],
       [name |-> <<"7","5","7","-","2","0","0","f">>, category |-> "cargo"],
       [name |-> <<"7","5","7","f">>, category |-> "cargo"],
       [name |-> <<"a","i","r","b","u","s"," ","a","3","0","0","-","6","0","0","f">>, category |-> "cargo"],
       [name |-> <<"a","i","r","b","u","s"," ","a","3","0","0","f">>, category |-> "cargo"],
       [name |-> <<"a","3","0","0","-","6","0","0","f">>, category |-> "cargo"],
       [name |-> <<"a","3","0","0","f">>, category |-> "cargo"]
    >>

\* CATEGORY_TO_CONSTRAINTS.get(category, "jet")
CATEGORY_TO_CONSTRAINTS(category) ==
    CASE category = "widebody" -> "jet"
      [] category = "narrowbody" -> "jet"
      [] category = "regional" -> "turboprop"
      [] category = "cargo" -> "jet"
      [] OTHER -> "jet"

\* str.lower() on the letters that occur
LowerChar(c) ==
    LET up == ("A" :> "a") @@ ("B" :> "b") @@ ("C" :> "c") @@ ("D" :> "d") @@
              ("E" :> "e") @@ ("F" :> "f") @@ ("G" :> "g") @@ ("H" :> "h") @@
              ("I" :> "i") @@ ("J" :> "j") @@ ("K" :> "k") @@ ("L" :> "l") @@
              ("M" :> "m") @@ ("N" :> "n") @@ ("O" :> "o") @@ ("P" :> "p") @@
              ("Q" :> "q") @@ ("R" :> "r") @@ ("S" :> "s") @@ ("T" :> "t") @@
              ("U" :> "u") @@ ("V" :> "v") @@ ("W" :> "w") @@ ("X" :> "x") @@
              ("Y" :> "y") @@ ("Z" :> "z")
    IN  IF c \in DOMAIN up THEN up[c] ELSE c

Lower(s) == [i \in 1..Len(s) |-> LowerChar(s[i])]

RECURSIVE Strip(_)
\* str.strip(): leading and trailing blanks removed
Strip(s) ==
    IF s = <<>> THEN s
    ELSE IF s[1] = " " THEN Strip(Tail(s))
    ELSE IF s[Len(s)] = " " THEN Strip(SubSeq(s, 1, Len(s) - 1))
    ELSE s

\* needle in haystack (substring test)
Contains(haystack, needle) ==
    \E i \in 1..(Len(haystack) - Len(needle) + 1) :
        SubSeq(haystack, i, i + Len(needle) - 1) = needle

\* str.startswith
StartsWith(s, prefix) ==
    Len(s) >= Len(prefix) /\ SubSeq(s, 1, Len(prefix)) = prefix

\* the keyword heuristics that follow the table scan
KeywordClass(normalized) ==
    IF Contains(normalized, <<"h","e","l","i">>)
    THEN [category |-> "helicopter", matched |-> TRUE]
    ELSE IF Contains(normalized, <<"t","u","r","b","o","p","r","o","p">>)
            \/ (Contains(normalized, <<"t","u","r","b","o">>)
                /\ Contains(normalized, <<"p","r","o","p">>))
    THEN [category |-> "turboprop", matched |-> TRUE]
    ELSE IF Contains(normalized, <<"p","r","o","p">>)
            \/ Contains(normalized, <<"p","i","s","t","o","n">>)
    THEN [category |-> "prop", matched |-> TRUE]
    ELSE IF Contains(normalized, <<"j","e","t">>)
    THEN [category |-> "jet", matched |-> TRUE]
    ELSE IF Contains(normalized, <<"b","o","e","i","n","g">>)
            \/ Contains(normalized, <<"a","i","r","b","u","s">>)
    THEN [category |-> "jet", matched |-> TRUE]
    ELSE IF StartsWith(normalized, <<"b","7">>) \/ StartsWith(normalized, <<"a","3">>)
            \/ StartsWith(normalized, <<"a","2">>)
    THEN [category |-> "jet", matched |-> TRUE]
    ELSE [category |-> "jet", matched |-> FALSE]

\* Returns [category, matched]
_classify_aircraft(plane_type) ==
    LET normalized == Lower(Strip(plane_type))
        hits == {i \in 1..Len(KNOWN_AIRCRAFT) : Contains(normalized, KNOWN_AIRCRAFT[i].name)}
    IN  IF normalized = <<>> THEN [category |-> "jet", matched |-> FALSE]
        ELSE IF hits # {}
        THEN LET first == CHOOSE i \in hits : \A j \in hits : i <= j
             IN  [category |-> CATEGORY_TO_CONSTRAINTS(KNOWN_AIRCRAFT[first].category),
                  matched |-> TRUE]
        ELSE KeywordClass(normalized)

\* Issues are records [who, kind]: the source formats them as "<who>: <text>".
Issue(who, kind) == [who |-> who, kind |-> kind]

\* validate_flight_plan with a fault: the speed band is not checked
validate_flight_plan_no_speed(flight) ==
    LET cls == _classify_aircraft(flight.plane_type)
        constraints == AIRCRAFT_CONSTRAINTS(cls.category)
    IN  (IF ~cls.matched THEN <<Issue(flight.acid, "unknown plane type")>> ELSE <<>>)
        \o (IF flight.altitude_ft < constraints.min_altitude_ft
               \/ flight.altitude_ft > constraints.max_altitude_ft
            THEN <<Issue(flight.acid, "altitude outside band")>> ELSE <<>>)

validate_flight_plan(flight) ==
    LET cls == _classify_aircraft(flight.plane_type)
        constraints == AIRCRAFT_CONSTRAINTS(cls.category)
    IN  (IF ~cls.matched THEN <<Issue(flight.acid, "unknown plane type")>> ELSE <<>>)
        \o (IF flight.speed_kt < constraints.min_speed_kt
               \/ flight.speed_kt > constraints.max_speed_kt
            THEN <<Issue(flight.acid, "speed outside band")>> ELSE <<>>)
        \o (IF flight.altitude_ft < constraints.min_altitude_ft
               \/ flight.altitude_ft > constraints.max_altitude_ft
            THEN <<Issue(flight.acid, "altitude outside band")>> ELSE <<>>)

-----------------------------------------------------------------------------
(* Values of the variables a specification does not use *)

\* the 4-point micro-degree size of one degree (bucket sizes are given in degrees)
Deg(n) == n * 1000000

\* HotspotConfig() and the defaults of detect_conflicts
DefaultConfig ==
    [lat_bucket_deg |-> Deg(1), lon_bucket_deg |-> Deg(1), altitude_band_ft |-> 2000,
     time_bin_sec |-> 60, top_n |-> 10, bucket_deg |-> Deg(1)]

NoCall == [flight |-> <<>>, points |-> <<>>, sample_sec |-> 0]

NoRet == [ok |-> FALSE, error |-> "", points |-> <<>>]

\* FlightPlan (passengers and is_cargo are carried by no operation and left out)
FlightPlan(acid, plane_type, route, altitude_ft, departure_time, speed_kt) ==
    [acid |-> acid, plane_type |-> plane_type, route |-> route,
     altitude_ft |-> altitude_ft, departure_time |-> departure_time,
     speed_kt |-> speed_kt, departure_airport |-> <<>>, arrival_airport |-> <<>>]

-----------------------------------------------------------------------------
(* Specification SpecTrajectory: direct calls of build_trajectory *)

\* longest route given to build_trajectory
MaxRouteLen == 3

\* longitudes of the route points on the equator: 0, 0.001 deg (0.06 nm), 0.025 deg (1.5 nm)
TrajLons == {0, 1000, 25000}

TrajRoutes == {r \in SeqsUpTo({<<0, lon>> : lon \in TrajLons}, MaxRouteLen) : Len(r) >= 1}

TrajFlights ==
    {FlightPlan("A", <<"j","e","t">>, <<>>, 30000, dep, speed) :
        dep \in {0, 45}, speed \in {0, 90, 360}}

\* most samples of one trajectory
MaxSamples == 60

\* the calls explored: those whose trajectory has at most MaxSamples samples
TrajCalls ==
    {c \in [flight : TrajFlights, points : TrajRoutes, sample_sec : {0, 30, 60}] :
        c.sample_sec > 0 =>
            TotalSec(SumSeq(_segment_distances(c.points)), Max(1, c.flight.speed_kt))
                < MaxSamples * c.sample_sec}

TrajInit ==
    /\ pc = "call"
    /\ call \in TrajCalls
    /\ ret = NoRet
    /\ payload = <<>> /\ flights = <<>> /\ issues = <<>> /\ trajectories = <<>>
    /\ conflicts_list = <<>> /\ hotspots_list = <<>> /\ proposals = <<>>
    /\ flight_map = <<>> /\ config = DefaultConfig

BuildTrajectoryCall ==
    /\ pc = "call"
    /\ ret' = build_trajectory(call.flight, call.points, call.sample_sec)
    /\ pc' = IF ret'.ok THEN "returned" ELSE "raised"
    /\ UNCHANGED <<payload, flights, issues, trajectories, conflicts_list,
                   hotspots_list, proposals, flight_map, config, call>>

TrajNext == BuildTrajectoryCall

SpecTrajectory == TrajInit /\ [][TrajNext]_vars

\* total distance of the route of the call
CallTotalNm == SumSeq(_segment_distances(call.points))

\* C8 (as stated): for every flight and every route whose total great-circle
\* distance is > 0, with positive sample cadence, build_trajectory returns at
\* least 2 points and the first point's timestamp is the departure time.
C8_AtLeastTwoPoints ==
    (pc = "returned" /\ CallTotalNm > 0 /\ call.sample_sec > 0)
        => /\ Len(ret.points) >= 2
           /\ ret.points[1].timestamp = call.flight.departure_time

\* C8 (amended): for total distance > 0 and positive cadence build_trajectory
\* returns floor(T / sample_sec) + 1 >= 1 points, T = ceil(total_nm /
\* max(1, speed_kt) * 3600); it returns at least 2 points exactly when
\* T >= sample_sec; the first point's timestamp is the departure time and the
\* samples follow each other sample_sec apart.  A call with total distance <= 0
\* or cadence <= 0 raises.
C8_PointCount ==
    LET T == TotalSec(CallTotalNm, Max(1, call.flight.speed_kt))
        n == Len(ret.points)
    IN  /\ pc = "returned" =>
              /\ CallTotalNm > 0 /\ call.sample_sec > 0
              /\ n = (T \div call.sample_sec) + 1
              /\ n >= 1
              /\ (n >= 2) <=> (T >= call.sample_sec)
              /\ ret.points[1].timestamp = call.flight.departure_time
              /\ \A i \in 1..n :
                    ret.points[i].timestamp
                        = call.flight.departure_time + (i - 1) * call.sample_sec
        /\ pc = "raised" => (CallTotalNm <= 0 \/ call.sample_sec <= 0)

\* a route of three waypoints sampled more than once
C8_Witness ==
    /\ pc = "returned"
    /\ Len(call.points) = 3
    /\ Len(ret.points) >= 2
    /\ CallTotalNm > 0

-----------------------------------------------------------------------------
(* Ordered collections as the source builds them *)

RECURSIVE OrderedDistinct(_)
\* the distinct elements of s in the order of their first occurrence
\* (the key order of a dict filled by appending to d[key])
OrderedDistinct(s) ==
    IF s = <<>> THEN <<>>
    ELSE LET front == OrderedDistinct(SubSeq(s, 1, Len(s) - 1))
             last == s[Len(s)]
         IN  IF \E i \in 1..Len(front) : front[i] = last THEN front
             ELSE Append(front, last)

RECURSIVE Concat(_)
\* the concatenation of a sequence of sequences
Concat(ss) == IF ss = <<>> THEN <<>> ELSE ss[1] \o Concat(Tail(ss))

RECURSIVE SortTagged(_, _)
\* stable insertion sort of [k, x] records by k; descending when reverse
SortTagged(s, reverse) ==
    IF s = <<>> THEN <<>>
    ELSE LET front == SortTagged(SubSeq(s, 1, Len(s) - 1), reverse)
             e == s[Len(s)]
             n == Cardinality({i \in 1..Len(front) :
                                  IF reverse THEN front[i].k >= e.k ELSE front[i].k <= e.k})
         IN  SubSeq(front, 1, n) \o <<e>> \o SubSeq(front, n + 1, Len(front))

\* the sorted items without their keys
Untag(s) == [i \in 1..Len(s) |-> s[i].x]

\* ACIDs of the model, in lexicographic (str) order
ACIDS == <<"AC1", "AC2", "AC3">>

\* position of an ACID in the str order
Rank(acid) == CHOOSE i \in 1..Len(ACIDS) : ACIDS[i] = acid

\* x < y on str
StrLess(x, y) == Rank(x) < Rank(y)

-----------------------------------------------------------------------------
(* conflicts.py *)

\* 5.0 nm in 1e-5 nm
HORIZONTAL_THRESHOLD_NM == 500000

VERTICAL_THRESHOLD_FT == 2000

\* (floor(lat / bucket_deg), floor(lon / bucket_deg))
_bucket_key(lat, lon, bucket_deg) == <<lat \div bucket_deg, lon \div bucket_deg>>

\* the 3 x 3 neighbourhood, in the generator's order
_neighbor_keys(key) ==
    <<  <<key[1] - 1, key[2] - 1>>, <<key[1] - 1, key[2]>>, <<key[1] - 1, key[2] + 1>>,
        <<key[1], key[2] - 1>>,     <<key[1], key[2]>>,     <<key[1], key[2] + 1>>,
        <<key[1] + 1, key[2] - 1>>, <<key[1] + 1, key[2]>>, <<key[1] + 1, key[2] + 1>> >>

\* round(horiz + vert, 4) in 1e-4:  horiz = max(0, (5.0 - h) / 5.0),
\* vert = max(0, (2000 - v) / 2000); their sum is
\* (max(0, 500000 - h) + 250 * max(0, 2000 - v)) / 500000.
_severity(horizontal_nm, vertical_ft) ==
    RoundDiv(Max(0, HORIZONTAL_THRESHOLD_NM - horizontal_nm)
               + 250 * Max(0, VERTICAL_THRESHOLD_FT - vertical_ft), 50)

\* every point of every trajectory, in the order of trajectories.values()
AllPoints(trajs) == Concat([i \in 1..Len(trajs) |-> trajs[i].value])

\* int(point.timestamp // time_bin_sec)
TimeBin(point, time_bin_sec) == point.timestamp \div time_bin_sec

\* bins: the bin keys in insertion order
BinKeys(trajs, time_bin_sec) ==
    LET pts == AllPoints(trajs)
    IN  OrderedDistinct([i \in 1..Len(pts) |-> TimeBin(pts[i], time_bin_sec)])

\* bins[bin_key]
BinPoints(trajs, time_bin_sec, bin_key) ==
    SelectSeq(AllPoints(trajs), LAMBDA p : TimeBin(p, time_bin_sec) = bin_key)

\* spatial: the bucket keys of one bin in insertion order
SpatialKeys(points, bucket_deg) ==
    OrderedDistinct([i \in 1..Len(points) |->
                        _bucket_key(points[i].lat, points[i].lon, bucket_deg)])

\* spatial.get(bucket, [])
SpatialGet(points, bucket_deg, bucket) ==
    SelectSeq(points, LAMBDA p : _bucket_key(p.lat, p.lon, bucket_deg) = bucket)

\* the (point_a, point_b) pairs of one bin in the order the loops visit them
BinComparisons(points, bucket_deg) ==
    LET keys == SpatialKeys(points, bucket_deg)
        OfBucket(bucket) ==
            LET bucket_points == SpatialGet(points, bucket_deg, bucket)
                nb == _neighbor_keys(bucket)
                candidates ==
                    Concat([n \in 1..Len(nb) |-> SpatialGet(points, bucket_deg, nb[n])])
            IN  Concat([i \in 1..Len(bucket_points) |->
                          [j \in 1..Len(candidates) |->
                              <<bucket_points[i], candidates[j]>>]])
    IN  Concat([k \in 1..Len(keys) |-> OfBucket(keys[k])])

\* tuple(sorted((x, y))) with the order reversed
SortedPairSwapped(x, y) == IF StrLess(x, y) THEN <<y, x>> ELSE <<x, y>>

\* tuple({x, y}) in place of tuple(sorted((x, y))): the order of a set of str
\* follows the str hashes, which differ from one interpreter run to the next
SortedPairHashed(x, y) ==
    IF call.run = 1 THEN (IF StrLess(y, x) THEN <<y, x>> ELSE <<x, y>>)
    ELSE (IF StrLess(x, y) THEN <<y, x>> ELSE <<x, y>>)

\* tuple(sorted((x, y)))
SortedPair(x, y) == IF StrLess(y, x) THEN <<y, x>> ELSE <<x, y>>

\* the separation test with <= in place of <
IsHitInclusive(horizontal_nm, vertical_ft) ==
    horizontal_nm <= HORIZONTAL_THRESHOLD_NM /\ vertical_ft <= VERTICAL_THRESHOLD_FT

\* horizontal_nm < HORIZONTAL_THRESHOLD_NM and vertical_ft < VERTICAL_THRESHOLD_FT
IsHit(horizontal_nm, vertical_ft) ==
    horizontal_nm < HORIZONTAL_THRESHOLD_NM /\ vertical_ft < VERTICAL_THRESHOLD_FT

RECURSIVE ScanPairs(_, _, _)
\* the body of the two inner loops over one bin's comparisons:
\* checked_pairs is the set of (pair, timestamp) keys, hits the appended
\* raw hits [pair, timestamp, horizontal_nm, vertical_ft] in order
ScanPairs(comparisons, checked_pairs, hits) ==
    IF comparisons = <<>> THEN hits
    ELSE LET point_a == comparisons[1][1]
             point_b == comparisons[1][2]
             pair == SortedPair(point_a.acid, point_b.acid)
             pair_key == <<pair, point_a.timestamp>>
             horizontal_nm == great_circle_nm(<<point_a.lat, point_a.lon>>,
                                              <<point_b.lat, point_b.lon>>)
             vertical_ft == Abs(point_a.altitude_ft - point_b.altitude_ft)
         IN  IF point_a.acid = point_b.acid \/ pair_key \in checked_pairs
             THEN ScanPairs(Tail(comparisons), checked_pairs, hits)
             ELSE ScanPairs(Tail(comparisons), checked_pairs \cup {pair_key},
                            IF IsHit(horizontal_nm, vertical_ft)
                            THEN Append(hits, [pair |-> pair,
                                               timestamp |-> point_a.timestamp,
                                               horizontal_nm |-> horizontal_nm,
                                               vertical_ft |-> vertical_ft])
                            ELSE hits)

RECURSIVE ScanBins(_, _, _, _, _)
\* the loop over bins.items(): every bin starts with an empty checked_pairs
ScanBins(trajs, time_bin_sec, bucket_deg, bin_keys, hits) ==
    IF bin_keys = <<>> THEN hits
    ELSE LET points == BinPoints(trajs, time_bin_sec, bin_keys[1])
         IN  ScanBins(trajs, time_bin_sec, bucket_deg, Tail(bin_keys),
                      ScanPairs(BinComparisons(points, bucket_deg), {}, hits))

\* every raw hit in the order it was appended (raw_hits, flattened)
RawHits(trajs, time_bin_sec, bucket_deg) ==
    ScanBins(trajs, time_bin_sec, bucket_deg, BinKeys(trajs, time_bin_sec), <<>>)

\* ConflictEvent(...) as built when an event is closed
MakeEvent(pair, start, end, min_h, min_v, time_bin_sec) ==
    [flight_a |-> pair[1], flight_b |-> pair[2],
     start_time |-> start, end_time |-> end + time_bin_sec,
     min_horizontal_nm |-> RoundDiv(min_h, 10),
     min_vertical_ft |-> min_v,
     severity |-> _severity(min_h, min_v)]

\* the test that lets a hit join the open event, without the one-bin gap
JoinsOpenEventStrict(timestamp, end, time_bin_sec) == timestamp <= end

\* timestamp <= end + time_bin_sec
JoinsOpenEvent(timestamp, end, time_bin_sec) == timestamp <= end + time_bin_sec

RECURSIVE Coalesce(_, _, _, _, _)
\* the loop over hits[1:]; open = [start, end, min_h, min_v] is the open event
Coalesce(pair, hits, open, time_bin_sec, events) ==
    IF hits = <<>>
    THEN Append(events, MakeEvent(pair, open.start, open.end, open.min_h, open.min_v,
                                  time_bin_sec))
    ELSE LET h == hits[1]
         IN  IF JoinsOpenEvent(h.timestamp, open.end, time_bin_sec)
             THEN Coalesce(pair, Tail(hits),
                           [start |-> open.start, end |-> h.timestamp,
                            min_h |-> Min(open.min_h, h.horizontal_nm),
                            min_v |-> Min(open.min_v, h.vertical_ft)],
                           time_bin_sec, events)
             ELSE Coalesce(pair, Tail(hits),
                           [start |-> h.timestamp, end |-> h.timestamp,
                            min_h |-> h.horizontal_nm, min_v |-> h.vertical_ft],
                           time_bin_sec,
                           Append(events,
                                  MakeEvent(pair, open.start, open.end, open.min_h,
                                            open.min_v, time_bin_sec)))

\* hits.sort(key=lambda h: h[0]): ascending and stable
SortHits(hits) ==
    Untag(SortTagged([i \in 1..Len(hits) |-> [k |-> hits[i].timestamp, x |-> hits[i]]],
                     FALSE))

\* the events of one pair, from its hits sorted by timestamp
PairEvents(pair, pair_hits, time_bin_sec) ==
    LET hits == SortHits(pair_hits)
    IN  Coalesce(pair, Tail(hits),
                 [start |-> hits[1].timestamp, end |-> hits[1].timestamp,
                  min_h |-> hits[1].horizontal_nm, min_v |-> hits[1].vertical_ft],
                 time_bin_sec, <<>>)

\* conflicts as appended, before the final sort: pair after pair in the
\* insertion order of raw_hits
UnsortedConflicts(trajs, time_bin_sec, bucket_deg) ==
    LET raw == RawHits(trajs, time_bin_sec, bucket_deg)
        pairs == OrderedDistinct([i \in 1..Len(raw) |-> raw[i].pair])
    IN  Concat([k \in 1..Len(pairs) |->
                  PairEvents(pairs[k], SelectSeq(raw, LAMBDA h : h.pair = pairs[k]),
                             time_bin_sec)])

\* conflicts.sort(key=lambda c: c.severity, reverse=True) left out
FinalOrderUnsorted(conflicts) == conflicts

\* conflicts.sort(key=lambda c: c.severity, reverse=True)
FinalOrder(conflicts) ==
    Untag(SortTagged([i \in 1..Len(conflicts) |->
                        [k |-> conflicts[i].severity, x |-> conflicts[i]]], TRUE))

detect_conflicts(trajs, time_bin_sec, bucket_deg) ==
    FinalOrder(UnsortedConflicts(trajs, time_bin_sec, bucket_deg))

-----------------------------------------------------------------------------
(* hotspots.py *)

\* int(math.floor(value / step))
_bucket(value, step) == value \div step

\* the 4-D occupancy key of a point
OccupancyKey(point, cfg) ==
    <<_bucket(point.lat, cfg.lat_bucket_deg),
      _bucket(point.lon, cfg.lon_bucket_deg),
      _bucket(point.altitude_ft, cfg.altitude_band_ft),
      point.timestamp \div cfg.time_bin_sec>>

\* occupancy: its keys in insertion order
OccupancyKeys(trajs, cfg) ==
    LET pts == AllPoints(trajs)
    IN  OrderedDistinct([i \in 1..Len(pts) |-> OccupancyKey(pts[i], cfg)])

\* occupancy[key]
OccupancyPoints(trajs, cfg, key) ==
    SelectSeq(AllPoints(trajs), LAMBDA p : OccupancyKey(p, cfg) = key)

CellOf(key) == <<key[1], key[2], key[3]>>

\* len(points) of one occupancy entry, counted as distinct flights instead
EntryDensityDistinct(points) == Cardinality({points[i].acid : i \in 1..Len(points)})

\* len(points) of one occupancy entry
EntryDensity(points) == Len(points)

\* cell_stats[cell_key] after the loop over occupancy.items()
CellStats(trajs, cfg, cell_key) ==
    LET keys == OccupancyKeys(trajs, cfg)
        mine == {i \in 1..Len(keys) : CellOf(keys[i]) = cell_key}
        density(i) == EntryDensity(OccupancyPoints(trajs, cfg, keys[i]))
    IN  [peak_density |-> CHOOSE m \in {density(i) : i \in mine} :
                              \A i \in mine : density(i) <= m,
         time_bins |-> {keys[i][4] : i \in mine},
         flights |-> UNION {{p.acid : p \in Range(OccupancyPoints(trajs, cfg, keys[i]))} :
                                i \in mine}]

SetMin(S) == CHOOSE x \in S : \A y \in S : x <= y

SetMax(S) == CHOOSE x \in S : \A y \in S : x >= y

\* HotspotCell(...) of one cell; score = round(0.6 p + 0.3 u + 0.1 o, 4) in 1e-4
MakeCell(cell_key, stats, cfg) ==
    LET occupancy_minutes == Cardinality(stats.time_bins) * (cfg.time_bin_sec \div 60)
        unique_flights == Cardinality(stats.flights)
    IN  [lat_bucket |-> cell_key[1], lon_bucket |-> cell_key[2],
         altitude_band |-> cell_key[3],
         time_start |-> SetMin(stats.time_bins) * cfg.time_bin_sec,
         time_end |-> (SetMax(stats.time_bins) + 1) * cfg.time_bin_sec,
         peak_density |-> stats.peak_density,
         occupancy_minutes |-> occupancy_minutes,
         unique_flights |-> unique_flights,
         score |-> stats.peak_density * 6000 + unique_flights * 3000
                     + occupancy_minutes * 1000]

\* hotspots.sort(key=lambda h: h.score, reverse=True)
SortByScore(hotspots) ==
    Untag(SortTagged([i \in 1..Len(hotspots) |->
                        [k |-> hotspots[i].score, x |-> hotspots[i]]], TRUE))

detect_hotspots(trajs, cfg) ==
    LET keys == OccupancyKeys(trajs, cfg)
        cells == OrderedDistinct([i \in 1..Len(keys) |-> CellOf(keys[i])])
        hotspots == [c \in 1..Len(cells) |->
                        MakeCell(cells[c], CellStats(trajs, cfg, cells[c]), cfg)]
        sorted == SortByScore(hotspots)
    IN  SubSeq(sorted, 1, Min(cfg.top_n, Len(sorted)))

-----------------------------------------------------------------------------
(* Specification SpecPasses: detect_conflicts and detect_hotspots over a
   completed trajectory map, in the order analyze runs them *)

\* samples per trajectory
PassPoints == 3

\* a sample on the equator
PassPoint(acid, altitude_ft, timestamp, lon) ==
    [acid |-> acid, lat |-> 0, lon |-> lon, altitude_ft |-> altitude_ft,
     timestamp |-> timestamp, speed_kt |-> 360]

\* a trajectory sampled every 60 s from `start`, at the longitudes lons
PassTrajectory(acid, altitude_ft, start, lons) ==
    [key |-> acid,
     value |-> [i \in 1..Len(lons) |->
                  PassPoint(acid, altitude_ft, start + 60 * (i - 1), lons[i])]]

\* AC1 holds longitude 0 at 30 000 ft from t = 0
PassFirst == PassTrajectory("AC1", 30000, 0, [i \in 1..PassPoints |-> 0])

\* longitudes of AC2: 1.2 nm west (the next bucket), 1.2 nm east,
\* 4.99999 nm east, 5.00017 nm east
PassLons == {-20000, 20000, 83277, 83280}

PassSecond ==
    {PassTrajectory("AC2", alt, start, lons) :
        alt \in {30000, 31000, 32000}, start \in {0, 30},
        lons \in SeqsOfLen(PassLons, PassPoints)}

\* AC3, when present, has one sample 0.6 nm east of AC1 at the same level
PassThird == PassTrajectory("AC3", 30000, 0, <<10000>>)

PassMaps ==
    UNION {{<<PassFirst, b>>, <<b, PassFirst>>, <<PassFirst, b, PassThird>>,
            <<PassThird, b, PassFirst>>} : b \in PassSecond}

PassesInit ==
    /\ pc = "built"
    /\ trajectories \in PassMaps
    /\ config \in {[DefaultConfig EXCEPT !.time_bin_sec = t] : t \in {60, 120}}
    /\ conflicts_list = <<>> /\ hotspots_list = <<>> /\ proposals = <<>>
    /\ payload = <<>> /\ flights = <<>> /\ issues = <<>> /\ flight_map = <<>>
    /\ call = NoCall /\ ret = NoRet

\* conflicts_list = detect_conflicts(trajectories)
DetectConflicts ==
    /\ pc = "built"
    /\ conflicts_list' = detect_conflicts(trajectories, 60, config.bucket_deg)
    /\ pc' = "conflicts"
    /\ UNCHANGED <<payload, flights, issues, trajectories, hotspots_list, proposals,
                   flight_map, config, call, ret>>

\* hotspots_list = detect_hotspots(trajectories, HotspotConfig())
DetectHotspots ==
    /\ pc = "conflicts"
    /\ hotspots_list' = detect_hotspots(trajectories, config)
    /\ pc' = "hotspots"
    /\ UNCHANGED <<payload, flights, issues, trajectories, conflicts_list, proposals,
                   flight_map, config, call, ret>>

PassesNext == DetectConflicts \/ DetectHotspots

SpecPasses == PassesInit /\ [][PassesNext]_vars


\* the (flight_a, flight_b) pair of an event
EventPair(e) == <<e.flight_a, e.flight_b>>

\* C3: every conflict event emitted by detect_conflicts (unique ACIDs) has
\* flight_a strictly less than flight_b in str order, start_time <= end_time
\* and severity within [0, 2] (0..20000 in 1e-4).
C3_EventsWellFormed ==
    pc \in {"conflicts", "hotspots"} =>
        \A i \in 1..Len(conflicts_list) :
            LET e == conflicts_list[i]
            IN  /\ StrLess(e.flight_a, e.flight_b)
                /\ e.start_time <= e.end_time
                /\ 0 <= e.severity /\ e.severity <= 20000

\* detect_conflicts has emitted events for a map that lists AC2 before AC1, so
\* that point_a was a point of the lexicographically larger flight
C3_Witness ==
    /\ pc = "conflicts"
    /\ trajectories[1].key = "AC2"
    /\ Len(conflicts_list) >= 2

\* C4 (as stated): every conflict event has published min_horizontal_nm < 5.0
\* (50000 in 1e-4 nm) and min_vertical_ft < 2000.
C4_PublishedBelowThresholds ==
    pc \in {"conflicts", "hotspots"} =>
        \A i \in 1..Len(conflicts_list) :
            /\ conflicts_list[i].min_horizontal_nm < 50000
            /\ conflicts_list[i].min_vertical_ft < VERTICAL_THRESHOLD_FT

\* C5 (as stated): in the returned list the events of any one flight pair
\* appear in non-decreasing start_time order.
C5_PairStartsNonDecreasing ==
    pc \in {"conflicts", "hotspots"} =>
        \A i, j \in 1..Len(conflicts_list) :
            (i < j /\ EventPair(conflicts_list[i]) = EventPair(conflicts_list[j]))
                => conflicts_list[i].start_time <= conflicts_list[j].start_time

\* C5 (amended): the returned list is ordered by severity, highest first, and
\* the events of one flight pair that have equal severity appear in increasing
\* start_time order, the later one starting after the earlier one has ended.
C5_SeverityThenStart ==
    pc \in {"conflicts", "hotspots"} =>
        \A i, j \in 1..Len(conflicts_list) :
            i < j =>
                /\ conflicts_list[i].severity >= conflicts_list[j].severity
                /\ (/\ EventPair(conflicts_list[i]) = EventPair(conflicts_list[j])
                    /\ conflicts_list[i].severity = conflicts_list[j].severity)
                        => conflicts_list[i].end_time < conflicts_list[j].start_time

\* one pair has two events of equal severity, and the list holds events of
\* different severities
C5_Witness ==
    /\ pc = "conflicts"
    /\ \E i, j \in 1..Len(conflicts_list) :
          /\ i < j
          /\ EventPair(conflicts_list[i]) = EventPair(conflicts_list[j])
          /\ conflicts_list[i].severity = conflicts_list[j].severity
    /\ \E i, j \in 1..Len(conflicts_list) :
          conflicts_list[i].severity > conflicts_list[j].severity

\* C9 (as stated): for every cell returned by detect_hotspots,
\* peak_density <= unique_flights * (time_end - time_start) / time_bin_sec.
C9_PeakBound ==
    pc = "hotspots" =>
        \A i \in 1..Len(hotspots_list) :
            LET c == hotspots_list[i]
            IN  c.peak_density * config.time_bin_sec
                    <= c.unique_flights * (c.time_end - c.time_start)

\* the flights that have a point in the cell during the time bin
FlightsInCellBin(c, bin) ==
    {p.acid : p \in {q \in Range(AllPoints(trajectories)) :
                        OccupancyKey(q, config)
                            = <<c.lat_bucket, c.lon_bucket, c.altitude_band, bin>>}}

\* the time bins in which the cell is occupied
OccupiedBins(c) ==
    {OccupancyKey(q, config)[4] :
        q \in {p \in Range(AllPoints(trajectories)) :
                  CellOf(OccupancyKey(p, config))
                      = <<c.lat_bucket, c.lon_bucket, c.altitude_band>>}}

\* C10 (as stated): for every cell returned by detect_hotspots, peak_density
\* is the maximum, over the time bins in which the cell is occupied, of the
\* number of distinct flights with a trajectory point in the cell in that bin.
C10_PeakIsDistinctFlights ==
    pc = "hotspots" =>
        \A i \in 1..Len(hotspots_list) :
            LET c == hotspots_list[i]
            IN  c.peak_density
                    = SetMax({Cardinality(FlightsInCellBin(c, b)) : b \in OccupiedBins(c)})

-----------------------------------------------------------------------------
(* scoring.py and resolver.py *)

ALTITUDE_STEPS == <<-4000, -2000, 2000, 4000>>

SPEED_STEPS == <<-25, -15, -10, 10, 15, 25>>

DEPARTURE_STEPS == <<-10, -5, -2, 2, 5, 10>>

\* Optional[int]: None is <<>>, a value v is <<v>>
None == <<>>

Some(v) == <<v>>

\* (x or 0)
OrZero(x) == IF x = None THEN 0 ELSE x[1]

\* ResolutionCandidate(...) with score = benefit = cost = 0.0; the summary
\* text is a rendering of action_type and the delta and is left out
_candidate(flight_id, action_type, delta_altitude_ft, delta_speed_kt, delta_departure_min, reroute_waypoint) ==
    [flight_id |-> flight_id, action_type |-> action_type,
     delta_altitude_ft |-> delta_altitude_ft, delta_speed_kt |-> delta_speed_kt,
     delta_departure_min |-> delta_departure_min,
     reroute_waypoint |-> reroute_waypoint,
     score |-> 0, benefit |-> 0, cost |-> 0]

\* score_candidate with ScoreWeights(); benefit, cost and score in 1e-4:
\* cost = 0.04 delay + 0.002 altitude + 0.01 speed + 0.2 complexity,
\* complexity = 1.0 for a reroute and 0.3 otherwise
score_candidate(candidate, conflict) ==
    LET delay == Abs(OrZero(candidate.delta_departure_min))
        altitude == Abs(OrZero(candidate.delta_altitude_ft))
        speed == Abs(OrZero(candidate.delta_speed_kt))
        complexity == IF candidate.reroute_waypoint # None THEN 10 ELSE 3
        benefit == conflict.severity
        cost == delay * 400 + altitude * 20 + speed * 100 + complexity * 200
    IN  [candidate EXCEPT !.benefit = benefit, !.cost = cost, !.score = benefit - cost]

\* _valid_with_delta with a fault: the unmodified flight is validated
_valid_with_delta_unapplied(flight, delta_alt, delta_speed) ==
    Len(validate_flight_plan(flight)) = 0

\* flight.copy(update=...) validated; delta_dep_min is not used by the source
_valid_with_delta(flight, delta_alt, delta_speed) ==
    LET updated == [flight EXCEPT !.altitude_ft = flight.altitude_ft + delta_alt,
                                  !.speed_kt = flight.speed_kt + delta_speed]
    IN  Len(validate_flight_plan(updated)) = 0

\* the candidates of one conflict side, in the order they are appended
SideCandidates(flight, flight_id) ==
    LET alt(i) == IF _valid_with_delta(flight, ALTITUDE_STEPS[i], 0)
                  THEN <<_candidate(flight_id, "altitude", Some(ALTITUDE_STEPS[i]),
                                    None, None, None)>>
                  ELSE <<>>
        spd(i) == IF _valid_with_delta(flight, 0, SPEED_STEPS[i])
                  THEN <<_candidate(flight_id, "speed", None, Some(SPEED_STEPS[i]),
                                    None, None)>>
                  ELSE <<>>
        dep(i) == <<_candidate(flight_id, "departure", None, None,
                               Some(DEPARTURE_STEPS[i]), None)>>
    IN  Concat([i \in 1..Len(ALTITUDE_STEPS) |-> alt(i)])
        \o Concat([i \in 1..Len(SPEED_STEPS) |-> spd(i)])
        \o Concat([i \in 1..Len(DEPARTURE_STEPS) |-> dep(i)])
        \o (IF flight.route # <<>>
            THEN <<_candidate(flight_id, "reroute", None, None, None, Some("FIX01"))>>
            ELSE <<>>)

\* scored.sort(key=lambda c: c.score, reverse=True)
SortCandidates(scored) ==
    Untag(SortTagged([i \in 1..Len(scored) |-> [k |-> scored[i].score, x |-> scored[i]]],
                     TRUE))

\* scored[:3] of one conflict side
SideProposal(conflict, flight, flight_id) ==
    LET candidates == SideCandidates(flight, flight_id)
        scored == [i \in 1..Len(candidates) |-> score_candidate(candidates[i], conflict)]
        sorted == SortCandidates(scored)
    IN  SubSeq(sorted, 1, Min(3, Len(sorted)))

\* f"{conflict.flight_a}-{conflict.flight_b}:{flight_id}"
ProposalKey(conflict, flight_id) == <<conflict.flight_a, conflict.flight_b, flight_id>>

RECURSIVE ProposeLoop(_, _, _)
\* the loops over conflicts and over (flight_a, flight_b);
\* sides is the sequence of <<conflict, flight_id>> still to visit
ProposeLoop(sides, flight_dict, acc) ==
    IF sides = <<>> THEN acc
    ELSE LET conflict == sides[1][1]
             flight_id == sides[1][2]
         IN  IF ~DictHas(flight_dict, flight_id)
             THEN ProposeLoop(Tail(sides), flight_dict, acc)
             ELSE ProposeLoop(Tail(sides), flight_dict,
                              DictSet(acc, ProposalKey(conflict, flight_id),
                                      SideProposal(conflict,
                                                   DictGet(flight_dict, flight_id),
                                                   flight_id)))

propose_resolutions(conflicts, flight_dict) ==
    ProposeLoop(Concat([i \in 1..Len(conflicts) |->
                          << <<conflicts[i], conflicts[i].flight_a>>,
                             <<conflicts[i], conflicts[i].flight_b>> >>]),
                flight_dict, <<>>)

-----------------------------------------------------------------------------
(* Specification SpecResolver: propose_resolutions over a conflict list and a
   flight map *)

\* most conflict events given to propose_resolutions
MaxConflicts == 2

\* "Plane type" descriptors
PlaneTypes ==
    { <<"B","o","e","i","n","g"," ","7","3","7","-","8","0","0">>,
      <<"D","a","s","h"," ","8","-","4","0","0">>,
      <<"h","e","l","i","c","o","p","t","e","r">>,
      <<"C","e","s","s","n","a"," ","p","i","s","t","o","n">>,
      <<" ","J","E","T"," ">>,
      <<"z","e","p","p","e","l","i","n">> }

\* a waypoint token: degrees in micro-degrees and the two direction letters
Token(lat_deg, lat_dir, lon_deg, lon_dir) ==
    [lat_deg |-> lat_deg, lat_dir |-> lat_dir, lon_deg |-> lon_deg, lon_dir |-> lon_dir]

\* route "0N/0E 0N/0.025E"
ShortRoute == <<Token(0, "N", 0, "E"), Token(0, "N", 25000, "E")>>

ResolverFirst ==
    {FlightPlan("AC1", pt, route, alt, 0, speed) :
        pt \in PlaneTypes, route \in {<<>>, ShortRoute},
        alt \in {9000, 30000, 43000, 44000}, speed \in {190, 200, 360, 540}}

ResolverSecond == FlightPlan("AC2", <<"j","e","t">>, ShortRoute, 30000, 0, 360)

ResolverEvents ==
    { [flight_a |-> "AC1", flight_b |-> "AC2", start_time |-> 0, end_time |-> 60,
       min_horizontal_nm |-> 50000, min_vertical_ft |-> 0, severity |-> 10000],
      [flight_a |-> "AC1", flight_b |-> "AC2", start_time |-> 120, end_time |-> 180,
       min_horizontal_nm |-> 12008, min_vertical_ft |-> 0, severity |-> 17598] }

ResolverInit ==
    /\ pc = "hotspots"
    /\ conflicts_list \in {c \in SeqsUpTo(ResolverEvents, MaxConflicts) : Len(c) >= 1}
    /\ \E f \in ResolverFirst :
          flight_map \in {<<[key |-> "AC1", value |-> f]>>,
                          <<[key |-> "AC1", value |-> f],
                            [key |-> "AC2", value |-> ResolverSecond]>>}
    /\ proposals = <<>> /\ hotspots_list = <<>> /\ trajectories = <<>>
    /\ payload = <<>> /\ flights = <<>> /\ issues = <<>>
    /\ config = DefaultConfig /\ call = NoCall /\ ret = NoRet

\* proposals = propose_resolutions(conflicts_list, flight_map)
ProposeResolutions ==
    /\ pc = "hotspots"
    /\ proposals' = propose_resolutions(conflicts_list, flight_map)
    /\ pc' = "done"
    /\ UNCHANGED <<payload, flights, issues, trajectories, conflicts_list, hotspots_list,
                   flight_map, config, call, ret>>

ResolverNext == ProposeResolutions

SpecResolver == ResolverInit /\ [][ResolverNext]_vars


\* a jet of recognised type with in-band speed flying at 44 000 ft
JetAt44000(f) ==
    LET cls == _classify_aircraft(f.plane_type)
    IN  /\ cls.category = "jet" /\ cls.matched
        /\ f.speed_kt >= AIRCRAFT_CONSTRAINTS("jet").min_speed_kt
        /\ f.speed_kt <= AIRCRAFT_CONSTRAINTS("jet").max_speed_kt
        /\ f.altitude_ft = 44000

\* the altitude deltas among a list of candidates
AltitudeDeltas(cands) ==
    {cands[i].delta_altitude_ft[1] :
        i \in {j \in 1..Len(cands) : cands[j].action_type = "altitude"}}

\* the conflict sides <<conflict, flight_id>> whose flight is in the flight map
KnownSides ==
    {s \in UNION {{<<conflicts_list[i], conflicts_list[i].flight_a>>,
                   <<conflicts_list[i], conflicts_list[i].flight_b>>} :
                      i \in 1..Len(conflicts_list)} :
        DictHas(flight_map, s[2])}

\* C6 (as stated): for a jet of recognised type with in-band speed at 44 000 ft
\* that takes part in a conflict, the candidates propose_resolutions returns
\* for that side contain the -2000 ft and -4000 ft altitude changes and
\* neither the +2000 ft nor the +4000 ft one.
C6_ReturnedHasDescents ==
    pc = "done" =>
        \A s \in KnownSides :
            JetAt44000(DictGet(flight_map, s[2])) =>
                LET alts == AltitudeDeltas(DictGet(proposals, ProposalKey(s[1], s[2])))
                IN  /\ -2000 \in alts /\ -4000 \in alts
                    /\ 2000 \notin alts /\ 4000 \notin alts

\* C6 (amended): for such a jet the candidates generated for the side hold
\* exactly the -4000 ft and -2000 ft altitude changes (+2000 and +4000 are
\* filtered out), and the list returned for the side, the 3 best by score,
\* holds no altitude change at all: it is departure -2 min, departure +2 min
\* and a speed change of 10 kt (-10 kt when that stays in band, else +10 kt).
C6_DescentsGeneratedNotReturned ==
    pc = "done" =>
        \A s \in KnownSides :
            JetAt44000(DictGet(flight_map, s[2])) =>
                LET f == DictGet(flight_map, s[2])
                    returned == DictGet(proposals, ProposalKey(s[1], s[2]))
                IN  /\ AltitudeDeltas(SideCandidates(f, s[2])) = {-4000, -2000}
                    /\ AltitudeDeltas(returned) = {}
                    /\ Len(returned) = 3
                    /\ returned[1].delta_departure_min = Some(-2)
                    /\ returned[2].delta_departure_min = Some(2)
                    /\ returned[3].action_type = "speed"
                    /\ returned[3].delta_speed_kt
                          = IF f.speed_kt - 10 >= AIRCRAFT_CONSTRAINTS("jet").min_speed_kt
                            THEN Some(-10) ELSE Some(10)

\* proposals were returned for a conflict side flown by such a jet
C6_Witness ==
    /\ pc = "done"
    /\ \E s \in KnownSides :
          /\ JetAt44000(DictGet(flight_map, s[2]))
          /\ DictHas(proposals, ProposalKey(s[1], s[2]))
          /\ Len(DictGet(proposals, ProposalKey(s[1], s[2]))) = 3

\* speed and altitude inside the band of the aircraft class
InBand(f) ==
    LET constraints == AIRCRAFT_CONSTRAINTS(_classify_aircraft(f.plane_type).category)
    IN  /\ constraints.min_speed_kt <= f.speed_kt
        /\ f.speed_kt <= constraints.max_speed_kt
        /\ constraints.min_altitude_ft <= f.altitude_ft
        /\ f.altitude_ft <= constraints.max_altitude_ft

\* the flight with the candidate's altitude / speed delta applied
Applied(f, cand) ==
    [f EXCEPT !.altitude_ft = f.altitude_ft + OrZero(cand.delta_altitude_ft),
              !.speed_kt = f.speed_kt + OrZero(cand.delta_speed_kt)]

\* C7: for every candidate returned by propose_resolutions whose action_type
\* is altitude or speed, the target flight with the delta applied has speed
\* and altitude inside the constraint band of its aircraft class.
C7_ReturnedDeltasInBand ==
    pc = "done" =>
        \A e \in 1..Len(proposals) :
            \A i \in 1..Len(proposals[e].value) :
                LET cand == proposals[e].value[i]
                IN  cand.action_type \in {"altitude", "speed"} =>
                        InBand(Applied(DictGet(flight_map, cand.flight_id), cand))

\* a speed change was returned for a flight that is itself out of band
C7_Witness ==
    /\ pc = "done"
    /\ \E e \in 1..Len(proposals) :
          \E i \in 1..Len(proposals[e].value) :
              /\ proposals[e].value[i].action_type = "speed"
              /\ ~InBand(DictGet(flight_map, proposals[e].value[i].flight_id))


-----------------------------------------------------------------------------
(* parsing.py *)

\* A route string is the sequence of its whitespace-separated tokens; a token
\* is a Token record.  WAYPOINT_RE (re.IGNORECASE) accepts a token when its
\* direction letters are N or S and E or W; the degrees of a Token are
\* unsigned decimals, in micro-degrees.
WAYPOINT_RE(token) ==
    /\ token.lat_dir \in {"N", "S", "n", "s"}
    /\ token.lon_dir \in {"E", "W", "e", "w"}

UpperChar(c) ==
    LET low == ("a" :> "A") @@ ("b" :> "B") @@ ("c" :> "C") @@ ("d" :> "D") @@
               ("e" :> "E") @@ ("f" :> "F") @@ ("g" :> "G") @@ ("h" :> "H") @@
               ("i" :> "I") @@ ("j" :> "J") @@ ("k" :> "K") @@ ("l" :> "L") @@
               ("m" :> "M") @@ ("n" :> "N") @@ ("o" :> "O") @@ ("p" :> "P") @@
               ("q" :> "Q") @@ ("r" :> "R") @@ ("s" :> "S") @@ ("t" :> "T") @@
               ("u" :> "U") @@ ("v" :> "V") @@ ("w" :> "W") @@ ("x" :> "X") @@
               ("y" :> "Y") @@ ("z" :> "Z")
    IN  IF c \in DOMAIN low THEN low[c] ELSE c

Upper(s) == [i \in 1..Len(s) |-> UpperChar(s[i])]

\* (lat, lon) in micro-degrees
AIRPORT_COORDINATES ==
    <<
      [code |-> <<"C", "Y", "Y", "Z">>, coords |-> <<43677700, -79624800>>],
      [code |-> <<"C", "Y", "V", "R">>, coords |-> <<49194700, -123183900>>],
      [code |-> <<"C", "Y", "U", "L">>, coords |-> <<45470600, -73740800>>],
      [code |-> <<"C", "Y", "O", "W">>, coords |-> <<45322500, -75669200>>],
      [code |-> <<"C", "Y", "Y", "C">>, coords |-> <<51122500, -114013900>>],
      [code |-> <<"C", "Y", "E", "G">>, coords |-> <<53309700, -113579700>>],
      [code |-> <<"C", "Y", "W", "G">>, coords |-> <<49910000, -97239900>>],
      [code |-> <<"C", "Y", "Q", "B">>, coords |-> <<46791100, -71393300>>],
      [code |-> <<"C", "Y", "H", "Z">>, coords |-> <<44880800, -63508600>>],
      [code |-> <<"C", "Y", "X", "E">>, coords |-> <<52170800, -106699700>>],
      [code |-> <<"C", "Y", "Q", "R">>, coords |-> <<50431900, -104665600>>],
      [code |-> <<"C", "Y", "Y", "J">>, coords |-> <<48646900, -123425800>>],
      [code |-> <<"C", "Y", "Y", "T">>, coords |-> <<47618600, -52751900>>],
      [code |-> <<"C", "Y", "Q", "M">>, coords |-> <<46112200, -64678600>>],
      [code |-> <<"C", "Y", "F", "C">>, coords |-> <<45868900, -66537200>>],
      [code |-> <<"C", "Y", "S", "J">>, coords |-> <<45316100, -65890300>>],
      [code |-> <<"C", "Y", "Q", "I">>, coords |-> <<43826900, -66088100>>],
      [code |-> <<"C", "Y", "D", "F">>, coords |-> <<49210800, -57391400>>],
      [code |-> <<"C", "Y", "Q", "X">>, coords |-> <<48936900, -54568100>>],
      [code |-> <<"C", "Y", "X", "Y">>, coords |-> <<60709600, -135067400>>],
      [code |-> <<"C", "Y", "Z", "F">>, coords |-> <<62462800, -114440300>>],
      [code |-> <<"C", "Y", "F", "B">>, coords |-> <<63756100, -68555800>>],
      [code |-> <<"C", "Y", "T", "Z">>, coords |-> <<43627500, -79396200>>],
      [code |-> <<"C", "Y", "O", "O">>, coords |-> <<43922800, -78895000>>],
      [code |-> <<"C", "Y", "K", "F">>, coords |-> <<43460800, -80378600>>],
      [code |-> <<"C", "Y", "X", "U">>, coords |-> <<43035600, -81153900>>],
      [code |-> <<"C", "Y", "H", "M">>, coords |-> <<43173600, -79935000>>],
      [code |-> <<"C", "Y", "A", "M">>, coords |-> <<46485300, -84509400>>],
      [code |-> <<"C", "Y", "Q", "A">>, coords |-> <<44974700, -79303300>>],
      [code |-> <<"C", "Y", "T", "S">>, coords |-> <<48569700, -81376700>>],
      [code |-> <<"C", "Y", "V", "O">>, coords |-> <<48053300, -77782800>>],
      [code |-> <<"C", "Y", "M", "X">>, coords |-> <<45679500, -74038700>>],
      [code |-> <<"C", "Y", "H", "U">>, coords |-> <<45517500, -73416900>>],
      [code |-> <<"C", "Y", "Q", "Y">>, coords |-> <<46161400, -60047800>>],
      [code |-> <<"C", "Y", "P", "R">>, coords |-> <<54286100, -130444700>>],
      [code |-> <<"C", "Y", "X", "S">>, coords |-> <<53889400, -122678900>>],
      [code |-> <<"C", "Y", "K", "A">>, coords |-> <<50702200, -120444400>>],
      [code |-> <<"C", "Y", "L", "W">>, coords |-> <<49956100, -119377800>>],
      [code |-> <<"C", "Y", "C", "D">>, coords |-> <<49052200, -123870000>>],
      [code |-> <<"C", "Y", "X", "X">>, coords |-> <<49025300, -122360800>>],
      [code |-> <<"C", "Y", "B", "L">>, coords |-> <<49950800, -125270800>>],
      [code |-> <<"C", "Y", "X", "C">>, coords |-> <<49610800, -115782200>>],
      [code |-> <<"C", "Y", "Y", "F">>, coords |-> <<49463100, -119602200>>],
      [code |-> <<"C", "Y", "Q", "Q">>, coords |-> <<49710800, -124886700>>],
      [code |-> <<"C", "Y", "Z", "T">>, coords |-> <<50680600, -127366700>>]
    >>

\* parse_waypoint: [ok, error, point]; ok = FALSE is the ValueError
parse_waypoint(token) ==
    IF ~WAYPOINT_RE(token)
    THEN [ok |-> FALSE, error |-> "invalid waypoint", point |-> <<0, 0>>]
    ELSE LET lat == IF UpperChar(token.lat_dir) = "S" THEN -token.lat_deg
                    ELSE token.lat_deg
             lon == IF UpperChar(token.lon_dir) = "W" THEN -token.lon_deg
                    ELSE token.lon_deg
         IN  [ok |-> TRUE, error |-> "", point |-> <<lat, lon>>]

\* get_airport_coords: None, or Some of the coordinates; an airport code is a
\* tuple of characters, <<>> for None or ""
get_airport_coords(airport_code) ==
    IF airport_code = <<>> THEN None
    ELSE LET code == Upper(Strip(airport_code))
             hits == {i \in 1..Len(AIRPORT_COORDINATES) :
                         AIRPORT_COORDINATES[i].code = code}
         IN  IF hits = {} THEN None
             ELSE Some(AIRPORT_COORDINATES[CHOOSE i \in hits : TRUE].coords)

RECURSIVE ParseTokens(_, _)
\* the loop over route_str.split(): the first invalid token raises
ParseTokens(tokens, points) ==
    IF tokens = <<>> THEN [ok |-> TRUE, error |-> "", points |-> points]
    ELSE LET w == parse_waypoint(Head(tokens))
         IN  IF ~w.ok THEN [ok |-> FALSE, error |-> w.error, points |-> <<>>]
             ELSE ParseTokens(Tail(tokens), Append(points, w.point))

\* ExpandSingle with a fault: the airports are not used
ExpandSingleIgnored(points, dep_coords, arr_coords) ==
    [ok |-> FALSE, error |-> "route must include at least two waypoints", points |-> <<>>]

\* the expansion of a route of one waypoint by the airports
ExpandSingle(points, dep_coords, arr_coords) ==
    IF dep_coords # None /\ arr_coords # None
    THEN [ok |-> TRUE, error |-> "", points |-> <<dep_coords[1], points[1], arr_coords[1]>>]
    ELSE IF dep_coords # None
    THEN [ok |-> TRUE, error |-> "", points |-> <<dep_coords[1], points[1]>>]
    ELSE IF arr_coords # None
    THEN [ok |-> TRUE, error |-> "", points |-> <<points[1], arr_coords[1]>>]
    ELSE [ok |-> FALSE, error |-> "route must include at least two waypoints",
          points |-> <<>>]

\* parse_route: [ok, error, points]; ok = FALSE is the ValueError
parse_route(route_str, departure_airport, arrival_airport) ==
    IF route_str = <<>>
    THEN [ok |-> FALSE, error |-> "route is empty", points |-> <<>>]
    ELSE LET parsed == ParseTokens(route_str, <<>>)
         IN  IF ~parsed.ok THEN parsed
             ELSE LET expanded ==
                          IF Len(parsed.points) = 1
                          THEN ExpandSingle(parsed.points,
                                            get_airport_coords(departure_airport),
                                            get_airport_coords(arrival_airport))
                          ELSE parsed
                  IN  IF ~expanded.ok THEN expanded
                      ELSE IF Len(expanded.points) < 2
                      THEN [ok |-> FALSE,
                            error |-> "route must include at least two waypoints",
                            points |-> <<>>]
                      ELSE expanded

-----------------------------------------------------------------------------
(* main.py: _parse_flights, _build_trajectories, analyze *)

\* the f"index:{index}" of the first items of a payload
IndexName(index) == <<"index:0", "index:1", "index:2", "index:3", "index:4">>[index + 1]

\* A payload item is a record: kind is "dict" for a JSON object and the name
\* of the Python type otherwise.  The "ACID" entry of an object is None
\* (no such key) or Some of a string; "altitude" is None (no such key, or a
\* value int() rejects) or Some of an integer.  The other required entries
\* are present and well-typed.
_get_acid(raw, index) ==
    IF raw.acid # None /\ raw.acid[1] # "" THEN raw.acid[1] ELSE IndexName(index)

\* FlightPlan.parse_obj: [ok, flight]; ok = FALSE is the ValidationError.
\* anystr_strip_whitespace strips the string fields.
parse_obj(item) ==
    IF item.acid = None \/ item.altitude = None
    THEN [ok |-> FALSE, flight |-> <<>>]
    ELSE [ok |-> TRUE,
          flight |-> [FlightPlan(item.acid[1], Strip(item.plane_type), item.route,
                                 item.altitude[1], item.departure_time, item.speed_kt)
                        EXCEPT !.departure_airport = Strip(item.departure_airport),
                               !.arrival_airport = Strip(item.arrival_airport)]]

RECURSIVE ParseLoop(_, _, _, _)
\* the loop of _parse_flights from item `index` (0-based) on
ParseLoop(payload_items, index, flights_acc, issues_acc) ==
    IF index >= Len(payload_items)
    THEN [flights |-> flights_acc, issues |-> issues_acc]
    ELSE LET item == payload_items[index + 1]
         IN  IF item.kind # "dict"
             THEN ParseLoop(payload_items, index + 1, flights_acc,
                            Append(issues_acc, Issue(IndexName(index), "expected object")))
             ELSE LET acid == _get_acid(item, index)
                      parsed == parse_obj(item)
                  IN  IF ~parsed.ok
                      THEN ParseLoop(payload_items, index + 1, flights_acc,
                                     Append(issues_acc, Issue(acid, "invalid flight plan")))
                      ELSE ParseLoop(payload_items, index + 1,
                                     Append(flights_acc, parsed.flight),
                                     issues_acc \o validate_flight_plan(parsed.flight))

\* _parse_flights: [flights, issues]
_parse_flights(payload_items) == ParseLoop(payload_items, 0, <<>>, <<>>)

RECURSIVE BuildLoop(_, _, _)
\* the loop of _build_trajectories: the ValueError of parse_route is caught
\* (issue, continue); build_trajectory is called outside the try block, so
\* its ValueError leaves the function (raised = TRUE)
BuildLoop(flight_list, trajs, issues_acc) ==
    IF flight_list = <<>>
    THEN [raised |-> FALSE, error |-> "", trajectories |-> trajs, issues |-> issues_acc]
    ELSE LET flight == Head(flight_list)
             route_points == parse_route(flight.route, flight.departure_airport,
                                         flight.arrival_airport)
         IN  IF ~route_points.ok
             THEN BuildLoop(Tail(flight_list), trajs,
                            Append(issues_acc, Issue(flight.acid, route_points.error)))
             ELSE LET built == build_trajectory(flight, route_points.points, 60)
                  IN  IF ~built.ok
                      THEN [raised |-> TRUE, error |-> built.error,
                            trajectories |-> trajs, issues |-> issues_acc]
                      ELSE BuildLoop(Tail(flight_list),
                                     DictSet(trajs, flight.acid, built.points),
                                     issues_acc)

\* _build_trajectories: [raised, error, trajectories, issues]
_build_trajectories(flight_list) == BuildLoop(flight_list, <<>>, <<>>)

RECURSIVE FlightMap(_, _)
\* {flight.acid: flight for flight in flights}
FlightMap(flight_list, acc) ==
    IF flight_list = <<>> THEN acc
    ELSE FlightMap(Tail(flight_list), DictSet(acc, Head(flight_list).acid, Head(flight_list)))

-----------------------------------------------------------------------------
(* Specification SpecPipeline: analyze on a payload *)

\* most items of a payload
MaxBatch == 3

\* a payload item that is a JSON object
Item(acid, plane_type, route, altitude, speed_kt, departure_airport) ==
    [kind |-> "dict", acid |-> acid, plane_type |-> plane_type, route |-> route,
     altitude |-> altitude, departure_time |-> 0, speed_kt |-> speed_kt,
     departure_airport |-> departure_airport, arrival_airport |-> <<>>]

Boeing == <<"B","o","e","i","n","g"," ","7","3","7","-","8","0","0">>

\* route "0N/0E 0N/0.2E": 12 nm along the equator
GoodRoute == <<Token(0, "N", 0, "E"), Token(0, "N", 200000, "E")>>

\* the item 42
ScalarItem == [Item(None, <<>>, <<>>, None, 0, <<>>) EXCEPT !.kind = "int"]

\* objects FlightPlan.parse_obj rejects: no "ACID", "ACID": "", "ACID": "AC3",
\* each without "altitude"
InvalidItems ==
    {Item(acid, Boeing, GoodRoute, None, 360, <<>>) : acid \in {None, Some(""), Some("AC3")}}

\* flights whose route string parse_route rejects: "", "0X/0E 0N/0.2E",
\* "0N/0E" with no airport, "0N/0E" with an airport code that is not known
BadRouteItems ==
    {Item(Some("AC3"), Boeing, route, Some(30000), 360, <<>>) :
        route \in {<<>>, <<Token(0, "X", 0, "E"), Token(0, "N", 200000, "E")>>,
                   <<Token(0, "N", 0, "E")>>}}
    \cup {Item(Some("AC3"), Boeing, <<Token(0, "N", 0, "E")>>, Some(30000), 360,
               <<"Z","Z","Z","Z">>)}

\* flights with a route of positive length: AC1 on GoodRoute; AC2 3 nm east of
\* it on "0N/0.05E 0N/0.25E"; AC2 as a "zeppelin" at 600 kt and 50 000 ft
\* (three warnings) on "0N/5E 0N/5.2E"; AC3 on "43.5N/79.6248W" from " cyyz "
GoodItems ==
    { Item(Some("AC1"), Boeing, GoodRoute, Some(30000), 360, <<>>),
      Item(Some("AC2"), <<" ","j","e","t">>,
           <<Token(0, "N", 50000, "E"), Token(0, "N", 250000, "E")>>, Some(30000), 360, <<>>),
      Item(Some("AC2"), <<"z","e","p","p","e","l","i","n">>,
           <<Token(0, "N", 5000000, "E"), Token(0, "N", 5200000, "E")>>, Some(50000), 600, <<>>),
      Item(Some("AC3"), Boeing, <<Token(43500000, "n", 79624800, "w")>>, Some(30000), 360,
           <<" ","c","y","y","z"," ">>) }

\* a flight whose route has total distance 0: "0N/0E 0N/0E"
ZeroDistanceItems ==
    {Item(Some("AC2"), Boeing, <<Token(0, "N", 0, "E"), Token(0, "N", 0, "E")>>,
          Some(30000), 360, <<>>)}

PipelineItems ==
    {ScalarItem} \cup InvalidItems \cup BadRouteItems \cup GoodItems \cup ZeroDistanceItems

PipelineInit ==
    /\ pc = "request"
    /\ payload \in {p \in SeqsUpTo(PipelineItems, MaxBatch) : Len(p) >= 1}
    /\ flights = <<>> /\ issues = <<>> /\ flight_map = <<>> /\ trajectories = <<>>
    /\ conflicts_list = <<>> /\ hotspots_list = <<>> /\ proposals = <<>>
    /\ config = DefaultConfig /\ call = NoCall /\ ret = NoRet

\* flights, issues = _parse_flights(payload); flight_map = {...}
ParseFlights ==
    /\ pc = "request"
    /\ LET parsed == _parse_flights(payload)
       IN  /\ flights' = parsed.flights
           /\ issues' = parsed.issues
           /\ flight_map' = FlightMap(parsed.flights, <<>>)
    /\ pc' = "parsed"
    /\ UNCHANGED <<payload, trajectories, conflicts_list, hotspots_list, proposals,
                   config, call, ret>>

\* trajectories, route_issues = _build_trajectories(flights);
\* issues.extend(route_issues).  An exception leaving _build_trajectories
\* leaves analyze too: the request ends without a response body.
BuildTrajectories ==
    /\ pc = "parsed"
    /\ LET built == _build_trajectories(flights)
       IN  IF built.raised
           THEN /\ pc' = "aborted"
                /\ UNCHANGED <<trajectories, issues>>
           ELSE /\ pc' = "built"
                /\ trajectories' = built.trajectories
                /\ issues' = issues \o built.issues
    /\ UNCHANGED <<payload, flights, conflicts_list, hotspots_list, proposals,
                   flight_map, config, call, ret>>

PipelineNext ==
    \/ ParseFlights
    \/ BuildTrajectories
    \/ DetectConflicts
    \/ DetectHotspots
    \/ ProposeResolutions

SpecPipeline == PipelineInit /\ [][PipelineNext]_vars

-----------------------------------------------------------------------------
(* Properties of SpecPipeline *)

\* analyze has gone past _build_trajectories, or was ended by an exception
AfterBuild == pc \in {"built", "conflicts", "hotspots", "done", "aborted"}

HasIssue(who, kind) ==
    \E n \in 1..Len(issues) : issues[n] = Issue(who, kind)

\* the route of the flight parses and its total distance is > 0
PositiveRoute(flight) ==
    LET r == parse_route(flight.route, flight.departure_airport, flight.arrival_airport)
    IN  r.ok /\ SumSeq(_segment_distances(r.points)) > 0

\* the route of the flight parses and its total distance is <= 0
ZeroRoute(flight) ==
    LET r == parse_route(flight.route, flight.departure_airport, flight.arrival_airport)
    IN  r.ok /\ SumSeq(_segment_distances(r.points)) <= 0

\* C1: a flight whose parsed route has total great-circle distance <= 0 does
\* not abort the request: the flight is omitted from the trajectory map, an
\* issue attributed to its ACID is added to the issues list, and every other
\* flight of the batch is still processed and returned.
C1_ZeroDistanceOmittedWithIssue ==
    AfterBuild =>
        \A i \in 1..Len(flights) :
            ZeroRoute(flights[i]) =>
                /\ pc # "aborted"
                /\ HasIssue(flights[i].acid, "route distance must be positive")
                /\ (\A j \in 1..Len(flights) : flights[j].acid = flights[i].acid => ZeroRoute(flights[j]))
                       => ~DictHas(trajectories, flights[i].acid)
                /\ \A j \in 1..Len(flights) :
                       PositiveRoute(flights[j]) => DictHas(trajectories, flights[j].acid)

\* whom an issue about item idx (1-based) is attributed to: its ACID if it
\* has a non-empty one, else index:N
Attribution(item, idx) ==
    IF item.kind = "dict" /\ item.acid # None /\ item.acid[1] # ""
    THEN item.acid[1] ELSE IndexName(idx - 1)

\* C2: every item that is not an object, that fails flight-plan parsing, or
\* whose route string fails to parse is skipped with an issue appended
\* (attributed to its ACID if present, else to index:N), while every other
\* flight still gets a trajectory entry; a flight that only raises constraint
\* warnings adds issues but is not skipped.
C2_SkippedWithIssueOthersBuilt ==
    AfterBuild =>
        \A idx \in 1..Len(payload) :
            LET item == payload[idx]
                who == Attribution(item, idx)
            IN  IF item.kind # "dict" THEN HasIssue(who, "expected object")
                ELSE IF ~parse_obj(item).ok THEN HasIssue(who, "invalid flight plan")
                ELSE LET flight == parse_obj(item).flight
                         r == parse_route(flight.route, flight.departure_airport,
                                          flight.arrival_airport)
                     IN  /\ \A w \in 1..Len(validate_flight_plan(flight)) :
                                HasIssue(who, validate_flight_plan(flight)[w].kind)
                         /\ IF ~r.ok THEN HasIssue(who, r.error)
                            ELSE DictHas(trajectories, flight.acid)

-----------------------------------------------------------------------------
(* Specification SpecParsing: direct calls of parse_route and parse_waypoint *)

\* most tokens of a route string
MaxTokens == 2

\* "0N/0E", "43.5n/79.6248w", "45S/75W", "0X/0E" (no match), "95N/200E"
ParsingTokens ==
    { Token(0, "N", 0, "E"), Token(43500000, "n", 79624800, "w"),
      Token(45000000, "S", 75000000, "W"), Token(0, "X", 0, "E"),
      Token(95000000, "N", 200000000, "E") }

\* None, "CYYZ", " cyow ", "ZZZZ"
ParsingAirports ==
    { <<>>, <<"C","Y","Y","Z">>, <<" ","c","y","o","w"," ">>, <<"Z","Z","Z","Z">> }

ParseCall(op, route_str, departure_airport, arrival_airport) ==
    [op |-> op, route_str |-> route_str, departure_airport |-> departure_airport,
     arrival_airport |-> arrival_airport]

ParsingCalls ==
    {ParseCall("parse_route", r, d, a) :
        r \in SeqsUpTo(ParsingTokens, MaxTokens), d \in ParsingAirports, a \in ParsingAirports}
    \cup {ParseCall("parse_waypoint", <<t>>, <<>>, <<>>) : t \in ParsingTokens}

ParsingInit ==
    /\ pc = "call"
    /\ call \in ParsingCalls
    /\ ret = NoRet
    /\ payload = <<>> /\ flights = <<>> /\ issues = <<>> /\ flight_map = <<>>
    /\ trajectories = <<>> /\ conflicts_list = <<>> /\ hotspots_list = <<>>
    /\ proposals = <<>> /\ config = DefaultConfig

\* parse_route(route_str, departure_airport, arrival_airport)
ParseRouteCall ==
    /\ pc = "call" /\ call.op = "parse_route"
    /\ ret' = parse_route(call.route_str, call.departure_airport, call.arrival_airport)
    /\ pc' = IF ret'.ok THEN "returned" ELSE "raised"
    /\ UNCHANGED <<payload, flights, issues, trajectories, conflicts_list, hotspots_list,
                   proposals, flight_map, config, call>>

\* parse_waypoint(token)
ParseWaypointCall ==
    /\ pc = "call" /\ call.op = "parse_waypoint"
    /\ LET w == parse_waypoint(call.route_str[1])
       IN  ret' = [ok |-> w.ok, error |-> w.error,
                   points |-> IF w.ok THEN <<w.point>> ELSE <<>>]
    /\ pc' = IF ret'.ok THEN "returned" ELSE "raised"
    /\ UNCHANGED <<payload, flights, issues, trajectories, conflicts_list, hotspots_list,
                   proposals, flight_map, config, call>>

ParsingNext == ParseRouteCall \/ ParseWaypointCall

SpecParsing == ParsingInit /\ [][ParsingNext]_vars

\* the airport code names an entry of AIRPORT_COORDINATES
Resolves(airport_code) ==
    \E i \in 1..Len(AIRPORT_COORDINATES) :
        AIRPORT_COORDINATES[i].code = Upper(Strip(airport_code))

\* a call of parse_route has ended
RouteCallEnded == pc \in {"returned", "raised"} /\ call.op = "parse_route"

\* C11: parse_route either returns at least 2 points or raises: an empty
\* route raises; a route of exactly one waypoint yields [departure, waypoint,
\* arrival] when both airport codes resolve, a 2-point route (departure then
\* waypoint, or waypoint then arrival) when exactly one resolves, and raises
\* when neither resolves.
C11_TwoPointsOrError ==
    RouteCallEnded =>
        /\ pc = "returned" => Len(ret.points) >= 2
        /\ call.route_str = <<>> => pc = "raised"
        /\ (Len(call.route_str) = 1 /\ WAYPOINT_RE(call.route_str[1])) =>
              LET w == parse_waypoint(call.route_str[1]).point
                  dep == Resolves(call.departure_airport)
                  arr == Resolves(call.arrival_airport)
              IN  /\ (dep /\ arr) =>
                        /\ pc = "returned" /\ Len(ret.points) = 3 /\ ret.points[2] = w
                        /\ ret.points[1] = get_airport_coords(call.departure_airport)[1]
                        /\ ret.points[3] = get_airport_coords(call.arrival_airport)[1]
                  /\ (dep /\ ~arr) =>
                        /\ pc = "returned" /\ Len(ret.points) = 2 /\ ret.points[2] = w
                        /\ ret.points[1] = get_airport_coords(call.departure_airport)[1]
                  /\ (~dep /\ arr) =>
                        /\ pc = "returned" /\ Len(ret.points) = 2 /\ ret.points[1] = w
                        /\ ret.points[2] = get_airport_coords(call.arrival_airport)[1]
                  /\ (~dep /\ ~arr) => pc = "raised"

\* a one-waypoint route was expanded to departure, waypoint, arrival
C11_Witness ==
    /\ RouteCallEnded /\ pc = "returned"
    /\ Len(call.route_str) = 1 /\ Len(ret.points) = 3
    /\ ret.points[1] = <<43677700, -79624800>>
    /\ ret.points[3] = <<45322500, -75669200>>

\* C12: every waypoint parse_waypoint (and so parse_route) returns for an
\* accepted token has latitude in [-90, 90] and longitude in [-180, 180].
C12_WaypointInRange ==
    (pc = "returned" /\ call.op \in {"parse_waypoint", "parse_route"}) =>
        \A i \in 1..Len(ret.points) :
            /\ -90000000 <= ret.points[i][1] /\ ret.points[i][1] <= 90000000
            /\ -180000000 <= ret.points[i][2] /\ ret.points[i][2] <= 180000000

-----------------------------------------------------------------------------
(* FlightPlan objects: flight.copy(update=...) in resolver.py and main.py *)

\* an entry of an update dict
Update(field, value) == [field |-> field, value |-> value]

RECURSIVE ApplyUpdates(_, _)
\* the fields of `flight` replaced as the update dict says
ApplyUpdates(flight, updates) ==
    IF updates = <<>> THEN flight
    ELSE LET u == Head(updates)
             next == CASE u.field = "altitude_ft" -> [flight EXCEPT !.altitude_ft = u.value]
                       [] u.field = "speed_kt" -> [flight EXCEPT !.speed_kt = u.value]
                       [] u.field = "departure_time" -> [flight EXCEPT !.departure_time = u.value]
                       [] u.field = "route" -> [flight EXCEPT !.route = u.value]
         IN  ApplyUpdates(next, Tail(updates))

\* copy with a fault: the fields are set on the object itself, which is returned
copy_in_place(flight, updates) ==
    [self |-> ApplyUpdates(flight, updates), result |-> ApplyUpdates(flight, updates)]

\* flight.copy(update=updates): self is the object the method was called on,
\* as it is after the call; result is the object returned
copy(flight, updates) ==
    [self |-> flight, result |-> ApplyUpdates(flight, updates)]

\* the update dict of _valid_with_delta
DeltaUpdates(flight, delta_alt, delta_speed) ==
    <<Update("altitude_ft", flight.altitude_ft + delta_alt),
      Update("speed_kt", flight.speed_kt + delta_speed)>>

\* the (delta_alt, delta_speed) of the _valid_with_delta calls of one conflict side
SideDeltas ==
    [i \in 1..Len(ALTITUDE_STEPS) |-> <<ALTITUDE_STEPS[i], 0>>]
    \o [i \in 1..Len(SPEED_STEPS) |-> <<0, SPEED_STEPS[i]>>]

RECURSIVE AfterValidations(_, _)
\* the flight object given to _valid_with_delta, after the calls with `deltas`
AfterValidations(flight, deltas) ==
    IF deltas = <<>> THEN flight
    ELSE AfterValidations(
             copy(flight, DeltaUpdates(flight, deltas[1][1], deltas[1][2])).self,
             Tail(deltas))

\* the flight ids that propose_resolutions looks up
ConflictSides(conflicts) ==
    UNION {{conflicts[i].flight_a, conflicts[i].flight_b} : i \in 1..Len(conflicts)}

-----------------------------------------------------------------------------
(* Specification SpecApply: apply_changes, and propose_resolutions on its
   flight map.  The objects built by _parse_flights are the elements of
   `flights`; a value of flight_map is a reference: ref = i > 0 is the object
   flights[i], ref = 0 is an object only the map holds, whose fields are obj. *)

\* most actions of an /apply payload
MaxActions == 2

Ref(i) == [ref |-> i, obj |-> <<>>]

Fresh(flight) == [ref |-> 0, obj |-> flight]

Deref(entry, objects) == IF entry.ref > 0 THEN objects[entry.ref] ELSE entry.obj

\* the flight map with every reference replaced by the object it names
DerefMap(map, objects) ==
    [i \in 1..Len(map) |-> [key |-> map[i].key, value |-> Deref(map[i].value, objects)]]

RECURSIVE RefMap(_, _, _)
\* {flight.acid: flight for flight in flights}, by reference
RefMap(flight_list, i, acc) ==
    IF i > Len(flight_list) THEN acc
    ELSE RefMap(flight_list, i + 1, DictSet(acc, flight_list[i].acid, Ref(i)))

\* an element of payload["actions"]
Action(flight_id, delta_altitude_ft, delta_speed_kt, delta_departure_min, reroute_waypoint) ==
    [flight_id |-> flight_id, delta_altitude_ft |-> delta_altitude_ft,
     delta_speed_kt |-> delta_speed_kt, delta_departure_min |-> delta_departure_min,
     reroute_waypoint |-> reroute_waypoint]

\* the update dict apply_changes builds for one action
ActionUpdates(flight, action) ==
    (IF action.delta_altitude_ft # None
     THEN <<Update("altitude_ft", flight.altitude_ft + action.delta_altitude_ft[1])>>
     ELSE <<>>)
    \o (IF action.delta_speed_kt # None
        THEN <<Update("speed_kt", flight.speed_kt + action.delta_speed_kt[1])>>
        ELSE <<>>)
    \o (IF action.delta_departure_min # None
        THEN <<Update("departure_time",
                      flight.departure_time + action.delta_departure_min[1] * 60)>>
        ELSE <<>>)
    \o (IF action.reroute_waypoint # None
        THEN <<Update("route", Append(flight.route, action.reroute_waypoint[1]))>>
        ELSE <<>>)

\* the token FIX01 (no match of WAYPOINT_RE)
Fix01 == Token(0, "FIX01", 0, "")

ApplyActions ==
    {Action(id, Some(-2000), None, None, None) : id \in {"AC1", "AC2", "AC9"}}
    \cup {Action(id, None, Some(10), Some(-2), None) : id \in {"AC1", "AC2"}}
    \cup {Action("AC1", None, None, None, Some(Fix01)), Action("AC2", None, None, None, None)}

\* the "flights" of an /apply payload
ApplyPayloads ==
    {p \in SeqsUpTo({i \in GoodItems : i.departure_airport = <<>>} \cup {ScalarItem}, 2) :
        Len(p) >= 1}

ApplyEvent ==
    [flight_a |-> "AC1", flight_b |-> "AC2", start_time |-> 0, end_time |-> 180,
     min_horizontal_nm |-> 30020, min_vertical_ft |-> 0, severity |-> 13996]

ApplyInit ==
    /\ pc = "apply_request"
    /\ payload \in ApplyPayloads
    /\ \E acts \in SeqsUpTo(ApplyActions, MaxActions) : call = [actions |-> acts, next |-> 1]
    /\ conflicts_list = <<ApplyEvent>>
    /\ flights = <<>> /\ issues = <<>> /\ flight_map = <<>> /\ trajectories = <<>>
    /\ hotspots_list = <<>> /\ proposals = <<>>
    /\ config = DefaultConfig /\ ret = NoRet

\* flights, issues = _parse_flights(flights_payload); flight_map = {...}
ApplyParse ==
    /\ pc = "apply_request"
    /\ LET parsed == _parse_flights(payload)
       IN  /\ flights' = parsed.flights
           /\ issues' = parsed.issues
           /\ flight_map' = RefMap(parsed.flights, 1, <<>>)
    /\ pc' = "applying"
    /\ UNCHANGED <<payload, trajectories, conflicts_list, hotspots_list, proposals,
                   config, call, ret>>

\* one iteration of `for action in actions`
ApplyAction ==
    /\ pc = "applying" /\ call.next <= Len(call.actions)
    /\ LET action == call.actions[call.next]
       IN  IF ~DictHas(flight_map, action.flight_id)
           THEN UNCHANGED <<flights, flight_map>>
           ELSE LET entry == DictGet(flight_map, action.flight_id)
                    flight == Deref(entry, flights)
                    c == copy(flight, ActionUpdates(flight, action))
                IN  /\ flight_map' = DictSet(flight_map, action.flight_id, Fresh(c.result))
                    /\ flights' = IF entry.ref > 0
                                  THEN [flights EXCEPT ![entry.ref] = c.self]
                                  ELSE flights
    /\ call' = [call EXCEPT !.next = call.next + 1]
    /\ UNCHANGED <<pc, payload, issues, trajectories, conflicts_list, hotspots_list,
                   proposals, config, ret>>

\* revised = [flight.dict(...) for flight in flight_map.values()]; return
ApplyReturn ==
    /\ pc = "applying" /\ call.next > Len(call.actions)
    /\ ret' = [ok |-> TRUE, error |-> "", points |-> <<>>, issues |-> issues,
               revised |-> [i \in 1..Len(flight_map) |-> Deref(flight_map[i].value, flights)]]
    /\ pc' = "responded"
    /\ UNCHANGED <<payload, flights, issues, trajectories, conflicts_list, hotspots_list,
                   proposals, flight_map, config, call>>

\* propose_resolutions(conflicts_list, flight_map) on the objects of the map:
\* every flight it looks up is handed to _valid_with_delta
ProposeOnMap ==
    /\ pc = "applying"
    /\ proposals' = propose_resolutions(conflicts_list, DerefMap(flight_map, flights))
    /\ LET touched(e) == e.key \in ConflictSides(conflicts_list)
       IN  /\ flights' = [i \in 1..Len(flights) |->
                            IF \E n \in 1..Len(flight_map) :
                                  touched(flight_map[n]) /\ flight_map[n].value.ref = i
                            THEN AfterValidations(flights[i], SideDeltas)
                            ELSE flights[i]]
           /\ flight_map' = [n \in 1..Len(flight_map) |->
                               IF touched(flight_map[n]) /\ flight_map[n].value.ref = 0
                               THEN [flight_map[n] EXCEPT !.value.obj =
                                        AfterValidations(flight_map[n].value.obj, SideDeltas)]
                               ELSE flight_map[n]]
    /\ UNCHANGED <<pc, payload, issues, trajectories, conflicts_list, hotspots_list,
                   config, call, ret>>

ApplyNext == ApplyParse \/ ApplyAction \/ ApplyReturn \/ ProposeOnMap

SpecApply == ApplyInit /\ [][ApplyNext]_vars

\* the actions of the payload already handled that name a flight of the map
HandledIds ==
    {call.actions[n].flight_id : n \in 1..(call.next - 1)} \cap Range(DictKeys(flight_map))

\* C13: propose_resolutions and /apply never change a field of a FlightPlan
\* they were given: after any sequence of proposal runs and applied actions
\* each parsed flight still has its original altitude, speed, departure time
\* and route, and every revision is a new copy.
C13_OriginalsUnchanged ==
    pc \in {"applying", "responded"} =>
        /\ flights = _parse_flights(payload).flights
        /\ \A id \in HandledIds : DictGet(flight_map, id).ref = 0

\* an action changed the altitude in the revision returned for AC1, after a
\* proposal run
C13_Witness ==
    /\ pc = "responded" /\ proposals # <<>>
    /\ \E i \in 1..Len(flights) : \E n \in 1..Len(ret.revised) :
          /\ flights[i].acid = "AC1" /\ ret.revised[n].acid = "AC1"
          /\ ret.revised[n].altitude_ft = flights[i].altitude_ft - 2000

-----------------------------------------------------------------------------
(* Specification SpecTwice: analyze run twice on the same payload.  call.run
   is the number of the run; ret keeps the outcome of the first run. *)

\* what a run of analyze returns, or "aborted"
Outcome ==
    [pc |-> pc, issues |-> issues, trajectories |-> trajectories,
     conflicts |-> conflicts_list, hotspots |-> hotspots_list, proposals |-> proposals]

TwiceInit ==
    /\ pc = "request"
    /\ payload \in {p \in SeqsUpTo(PipelineItems, MaxBatch) : Len(p) >= 1}
    /\ call = [run |-> 1]
    /\ ret = NoRet
    /\ flights = <<>> /\ issues = <<>> /\ flight_map = <<>> /\ trajectories = <<>>
    /\ conflicts_list = <<>> /\ hotspots_list = <<>> /\ proposals = <<>>
    /\ config = DefaultConfig

\* the same payload is posted again
SecondRequest ==
    /\ pc \in {"done", "aborted"} /\ call.run = 1
    /\ ret' = Outcome
    /\ call' = [run |-> 2]
    /\ pc' = "request"
    /\ flights' = <<>> /\ issues' = <<>> /\ flight_map' = <<>> /\ trajectories' = <<>>
    /\ conflicts_list' = <<>> /\ hotspots_list' = <<>> /\ proposals' = <<>>
    /\ UNCHANGED <<payload, config>>

TwiceNext ==
    \/ ParseFlights
    \/ BuildTrajectories
    \/ DetectConflicts
    \/ DetectHotspots
    \/ ProposeResolutions
    \/ SecondRequest

SpecTwice == TwiceInit /\ [][TwiceNext]_vars

-----------------------------------------------------------------------------
(* Event coalescing *)

\* the timestamps of the raw hits of a pair
HitTimes(pair) ==
    LET raw == RawHits(trajectories, 60, config.bucket_deg)
    IN  {raw[i].timestamp : i \in {j \in 1..Len(raw) : raw[j].pair = pair}}

\* the pairs that have a raw hit
HitPairs ==
    LET raw == RawHits(trajectories, 60, config.bucket_deg)
    IN  {raw[i].pair : i \in 1..Len(raw)}

\* the positions in conflicts_list of the events of a pair
EventsOf(pair) == {i \in 1..Len(conflicts_list) : EventPair(conflicts_list[i]) = pair}

\* C15: per flight pair, the hits sorted by timestamp are split into events
\* exactly at gaps larger than time_bin_sec: each event starts at its first
\* hit and ends time_bin_sec after its last hit, consecutive hits of an event
\* are at most time_bin_sec apart, no hit outside an event is within
\* time_bin_sec of it, and a later event of the pair starts strictly after
\* the earlier one's end_time.
C15_EventsSplitAtGaps ==
    pc \in {"conflicts", "hotspots"} =>
        /\ \A i \in 1..Len(conflicts_list) : EventPair(conflicts_list[i]) \in HitPairs
        /\ \A pair \in HitPairs :
              LET T == HitTimes(pair)
              IN  /\ \A t \in T :
                        Cardinality({i \in EventsOf(pair) :
                                        /\ conflicts_list[i].start_time <= t
                                        /\ t <= conflicts_list[i].end_time - 60}) = 1
                  /\ \A i \in EventsOf(pair) :
                        LET start == conflicts_list[i].start_time
                            last == conflicts_list[i].end_time - 60
                        IN  /\ start \in T /\ last \in T
                            /\ \A t \in T : (start <= t /\ t < last) =>
                                   \E u \in T : t < u /\ u <= t + 60
                            /\ ~\E t \in T : start - 60 <= t /\ t < start
                            /\ ~\E t \in T : last < t /\ t <= last + 60
                  /\ \A i, j \in EventsOf(pair) :
                        conflicts_list[i].start_time < conflicts_list[j].start_time =>
                            conflicts_list[j].start_time > conflicts_list[i].end_time

\* one pair has two events, and some event joins hits of different timestamps
C15_Witness ==
    /\ pc = "conflicts"
    /\ \E pair \in HitPairs : Cardinality(EventsOf(pair)) = 2
    /\ \E i \in 1..Len(conflicts_list) :
          conflicts_list[i].end_time - 60 > conflicts_list[i].start_time

-----------------------------------------------------------------------------
(* The comparisons detect_conflicts evaluates *)

RECURSIVE ScanTested(_, _, _, _)
\* the comparisons of one bin that pass the two `continue` tests of the inner
\* loop, in order: [pair, bin, point_a, point_b]
ScanTested(comparisons, bin_key, checked_pairs, tested) ==
    IF comparisons = <<>> THEN tested
    ELSE LET point_a == comparisons[1][1]
             point_b == comparisons[1][2]
             pair == SortedPair(point_a.acid, point_b.acid)
             pair_key == <<pair, point_a.timestamp>>
         IN  IF point_a.acid = point_b.acid \/ pair_key \in checked_pairs
             THEN ScanTested(Tail(comparisons), bin_key, checked_pairs, tested)
             ELSE ScanTested(Tail(comparisons), bin_key, checked_pairs \cup {pair_key},
                             Append(tested, [pair |-> pair, bin |-> bin_key,
                                             point_a |-> point_a, point_b |-> point_b]))

\* every comparison evaluated, bin after bin
Tested(trajs, time_bin_sec, bucket_deg) ==
    LET bin_keys == BinKeys(trajs, time_bin_sec)
    IN  Concat([k \in 1..Len(bin_keys) |->
                  ScanTested(BinComparisons(BinPoints(trajs, time_bin_sec, bin_keys[k]),
                                            bucket_deg),
                             bin_keys[k], {}, <<>>)])

\* the comparison is a hit
TestedHit(x) ==
    IsHit(great_circle_nm(<<x.point_a.lat, x.point_a.lon>>, <<x.point_b.lat, x.point_b.lon>>),
          Abs(x.point_a.altitude_ft - x.point_b.altitude_ft))

\* C16: every hit recorded by detect_conflicts compares two points that carry
\* the same timestamp, and each sorted flight pair is tested at most once per
\* time bin.
C16_HitsAtOneInstant ==
    pc \in {"conflicts", "hotspots"} =>
        LET tested == Tested(trajectories, 60, config.bucket_deg)
        IN  /\ \A i \in 1..Len(tested) :
                  TestedHit(tested[i]) =>
                      tested[i].point_a.timestamp = tested[i].point_b.timestamp
            /\ \A i, j \in 1..Len(tested) :
                  (tested[i].pair = tested[j].pair /\ tested[i].bin = tested[j].bin) => i = j

-----------------------------------------------------------------------------
(* Proposals per conflict side *)

\* every flight of every conflict is in the flight map
AllSidesKnown ==
    \A i \in 1..Len(conflicts_list) :
        /\ DictHas(flight_map, conflicts_list[i].flight_a)
        /\ DictHas(flight_map, conflicts_list[i].flight_b)

\* the proposals hold an entry for side flight_id of the conflict whose
\* candidates carry the severity of that conflict as benefit
SideStored(conflict, flight_id) ==
    \E e \in 1..Len(proposals) :
        /\ proposals[e].key = ProposalKey(conflict, flight_id)
        /\ \A n \in 1..Len(proposals[e].value) :
              proposals[e].value[n].benefit = conflict.severity

\* C17: propose_resolutions returns one entry per conflict side: for n events
\* whose flights are all in the flight map the result has 2n entries, and the
\* candidates stored for a side carry the severity of that side's own event,
\* also when one flight pair has several events.
C17_OneEntryPerSide ==
    (pc = "done" /\ AllSidesKnown) =>
        /\ Len(proposals) = 2 * Len(conflicts_list)
        /\ \A i \in 1..Len(conflicts_list) :
              /\ SideStored(conflicts_list[i], conflicts_list[i].flight_a)
              /\ SideStored(conflicts_list[i], conflicts_list[i].flight_b)

-----------------------------------------------------------------------------
(* Specification SpecClassify: direct calls of _classify_aircraft *)

\* most table keys joined (with blanks) into one descriptor
MaxParts == 2

\* "737", "787", "boeing 737", "dash 8", "embraer e195-e2", "crj",
\* "bombardier crj", "a300f"
ClassifyParts ==
    { <<"7","3","7">>, <<"7","8","7">>, <<"b","o","e","i","n","g"," ","7","3","7">>,
      <<"d","a","s","h"," ","8">>,
      <<"e","m","b","r","a","e","r"," ","e","1","9","5","-","e","2">>,
      <<"c","r","j">>, <<"b","o","m","b","a","r","d","i","e","r"," ","c","r","j">>,
      <<"a","3","0","0","f">> }

RECURSIVE JoinParts(_)
\* " ".join(parts)
JoinParts(parts) ==
    IF Len(parts) = 1 THEN parts[1]
    ELSE parts[1] \o <<" ">> \o JoinParts(Tail(parts))

\* every table key, the descriptors joined from ClassifyParts, and PlaneTypes
ClassifyDescriptors ==
    {KNOWN_AIRCRAFT[i].name : i \in 1..Len(KNOWN_AIRCRAFT)}
    \cup {JoinParts(p) : p \in {q \in SeqsUpTo(ClassifyParts, MaxParts) : Len(q) >= 1}}
    \cup PlaneTypes

ClassifyInit ==
    /\ pc = "call"
    /\ call \in {[plane_type |-> d] : d \in ClassifyDescriptors}
    /\ ret = NoRet
    /\ payload = <<>> /\ flights = <<>> /\ issues = <<>> /\ flight_map = <<>>
    /\ trajectories = <<>> /\ conflicts_list = <<>> /\ hotspots_list = <<>>
    /\ proposals = <<>> /\ config = DefaultConfig

\* _classify_aircraft(plane_type)
ClassifyCall ==
    /\ pc = "call"
    /\ ret' = _classify_aircraft(call.plane_type)
    /\ pc' = "returned"
    /\ UNCHANGED <<payload, flights, issues, trajectories, conflicts_list, hotspots_list,
                   proposals, flight_map, config, call>>

ClassifyNext == ClassifyCall

SpecClassify == ClassifyInit /\ [][ClassifyNext]_vars

\* the table entries whose key is contained in the normalized descriptor
ContainedKeys(plane_type) ==
    {i \in 1..Len(KNOWN_AIRCRAFT) :
        Contains(Lower(Strip(plane_type)), KNOWN_AIRCRAFT[i].name)}

\* the contained entries of greatest key length
LongestKeys(plane_type) ==
    {i \in ContainedKeys(plane_type) :
        \A j \in ContainedKeys(plane_type) :
            Len(KNOWN_AIRCRAFT[j].name) <= Len(KNOWN_AIRCRAFT[i].name)}

\* C18: for every descriptor that contains at least one table key,
\* _classify_aircraft returns the constraint class of the longest table key
\* contained in the normalized descriptor.
C18_LongestKeyWins ==
    (pc = "returned" /\ ContainedKeys(call.plane_type) # {}) =>
        /\ ret.matched
        /\ \E i \in LongestKeys(call.plane_type) :
              ret.category = CATEGORY_TO_CONSTRAINTS(KNOWN_AIRCRAFT[i].category)

-----------------------------------------------------------------------------
(* Specification SpecParallel: detect_conflicts and detect_hotspots as two
   workers over one trajectory map.  Each worker reads the map flight by
   flight (for points in trajectories.values()) and then computes its output
   from what it read; pc gives the position of each worker, call holds what
   each worker has read and the map as it was given. *)

\* the map after a worker has read its n-th value, with a fault: the points
\* are consumed (popped) while they are read
AfterReadPopped(trajs, n) == [trajs EXCEPT ![n].value = <<>>]

\* the map after a worker has read its n-th value: the loops only read
AfterRead(trajs, n) == trajs

ParallelInit ==
    /\ trajectories \in PassMaps
    /\ pc = [conflicts |-> "reading", hotspots |-> "reading"]
    /\ call = [given |-> trajectories, conflicts_read |-> <<>>, hotspots_read |-> <<>>]
    /\ config = DefaultConfig
    /\ conflicts_list = <<>> /\ hotspots_list = <<>> /\ proposals = <<>>
    /\ payload = <<>> /\ flights = <<>> /\ issues = <<>> /\ flight_map = <<>>
    /\ ret = NoRet

\* detect_conflicts: one iteration of the loop that fills bins
ConflictsRead ==
    /\ pc.conflicts = "reading" /\ Len(call.conflicts_read) < Len(trajectories)
    /\ LET n == Len(call.conflicts_read) + 1
       IN  /\ call' = [call EXCEPT !.conflicts_read = Append(@, trajectories[n])]
           /\ trajectories' = AfterRead(trajectories, n)
    /\ UNCHANGED <<pc, payload, flights, issues, conflicts_list, hotspots_list, proposals,
                   flight_map, config, ret>>

\* detect_conflicts: the rest of the function, on the points it has read
ConflictsFinish ==
    /\ pc.conflicts = "reading" /\ Len(call.conflicts_read) >= Len(trajectories)
    /\ conflicts_list' = detect_conflicts(call.conflicts_read, 60, config.bucket_deg)
    /\ pc' = [pc EXCEPT !.conflicts = "done"]
    /\ UNCHANGED <<payload, flights, issues, trajectories, hotspots_list, proposals,
                   flight_map, config, call, ret>>

\* detect_hotspots: one iteration of the loop that fills occupancy
HotspotsRead ==
    /\ pc.hotspots = "reading" /\ Len(call.hotspots_read) < Len(trajectories)
    /\ LET n == Len(call.hotspots_read) + 1
       IN  /\ call' = [call EXCEPT !.hotspots_read = Append(@, trajectories[n])]
           /\ trajectories' = AfterRead(trajectories, n)
    /\ UNCHANGED <<pc, payload, flights, issues, conflicts_list, hotspots_list, proposals,
                   flight_map, config, ret>>

\* detect_hotspots: the rest of the function, on the points it has read
HotspotsFinish ==
    /\ pc.hotspots = "reading" /\ Len(call.hotspots_read) >= Len(trajectories)
    /\ hotspots_list' = detect_hotspots(call.hotspots_read, config)
    /\ pc' = [pc EXCEPT !.hotspots = "done"]
    /\ UNCHANGED <<payload, flights, issues, trajectories, conflicts_list, proposals,
                   flight_map, config, call, ret>>

ParallelNext == ConflictsRead \/ ConflictsFinish \/ HotspotsRead \/ HotspotsFinish

SpecParallel == ParallelInit /\ [][ParallelNext]_vars

=============================================================================
